---- MODULE Spec2Model ----
(***************************************************************************)
(* Model of the GitHub Actions automation scripts of this repository:      *)
(*   - the deployment matrix generators                                    *)
(*       .github/actions/Scripts/main.py  (DeploymentMatrixGenerator)      *)
(*       .github/actions/combined-matrix-generator/                        *)
(*                         generate_deployment_matrices.py  (main)         *)
(*       cloud-formation/rcc/matrix_generator.py  (generate_matrix, main)  *)
(*   - the CloudFormation parameter processors                             *)
(*       .github/actions/Scripts/main.py  (ParameterProcessor)             *)
(*       .github/actions/cfn-deploy/get-parameter-file.py  (main)          *)
(*       .github/scripts/secret-handler.py (process_parameters_with_secrets)*)
(*   - the tag processors                                                  *)
(*       .github/actions/Scripts/main.py  (TagProcessor)                   *)
(*       .github/actions/cfn-deploy/process-tags.py                        *)
(*   - the change detectors                                                *)
(*       .github/actions/Scripts/main.py  (ChangeDetector)                 *)
(*       .github/actions/detect-changes-action/                            *)
(*                         detect_changed_applications.py                  *)
(*                                                                         *)
(* Strings on which the code works character by character (environment     *)
(* names and filters, parameter values, secret names) are sequences of     *)
(* one-character strings; strings that are only copied or compared whole   *)
(* are TLA+ strings.                                                       *)
(***************************************************************************)
EXTENDS Integers, Sequences, FiniteSets, TLC

VARIABLES
    \* ---- deployment matrix generator ----
    variant,               \* which implementation runs: "main", "gdm" or "rcc"
    specific_environment,  \* INPUT_SPECIFIC_ENVIRONMENT (characters)
    num_paths,             \* length of resource_paths_list
    path_idx,              \* number of resource paths already processed
    mpc,                   \* position: "path", "env" or "done"
    declared,              \* deployments[0]['environments'] of the current config
    environments,          \* the environments being iterated for the current path
    env_idx,               \* index into environments of the next iteration
    deployment,            \* deployments[0]: per-environment mappings read so far
    lookup,                \* env and looked-up values of the last env iteration
    matrix_items,          \* main.py: the per-path dict of four lists
    dev_matrix_items,
    int_matrix_items,
    prod_matrix_items,
    custom_matrix_items,
    matrix,                \* rcc: the list generate_matrix builds
    config_status,         \* what loading the current path's config gave
    m_github_output,       \* the file named by GITHUB_OUTPUT, as the generator finds it
    m_exit,                \* exit code of the generator, -1 while it runs
    \* ---- parameter processor ----
    p_variant,             \* "main", "gpf" (get-parameter-file.py) or "sh" (secret-handler.py)
    github_secrets,        \* the secret map: secret name -> secret value
    file_form,             \* what the parameter file holds: "none" (no path given),
                           \*   "unreadable", "list" or "dict"
    file_parameters,       \* the records of the parameter file, in document order
    inline_form,           \* INPUT_INLINE_JSON_PARAMETERS: "none", "null", "invalid",
                           \*   "list" or "dict"
    inline_params,         \* the records of the parsed inline JSON, in document order
    combined_parameters,   \* the merged list
    processed_parameters,  \* secret-handler.py: the result of process_parameters_with_secrets
    ppc,                   \* position: "file", "inline", "save" or "done"
    p_github_output,       \* the file named by GITHUB_OUTPUT, as the write finds it
    p_output,              \* the PARAM_FILE line written to GITHUB_OUTPUT
    p_exit,                \* exit code of the processor, -1 while it runs
    \* ---- tag processor ----
    t_variant,             \* "main" (TagProcessor) or "pt" (process-tags.py)
    tags_json_form,        \* INPUT_TAGS: "none" (empty), "invalid" or "list"
    json_tags,             \* the records of the parsed INPUT_TAGS
    tags_key_value,        \* INPUT_TAGS_KEY_VALUE (characters)
    combined_tags,         \* the merged tag list
    tpc,                   \* position: "json", "kv", "write" or "done"
    t_github_output,       \* the file named by GITHUB_OUTPUT, as the write finds it
    t_output,              \* the TAGS entries written to the output file
    t_exit,                \* exit code of the tag processor, -1 while it runs
    \* ---- change detector ----
    c_variant,             \* which implementation runs: "main" or "dca"
    event_name,            \* GITHUB_EVENT_NAME
    resource_path,         \* inputs.resource_path of the event (characters), empty
                           \* when the event has none
    app_name,              \* INPUT_APP_NAME (characters), empty until read
    pr_number,             \* pull_request.number of the event, 0 when it has none
    pr_head_sha,           \* pull_request.head.sha of the event, "" when it has none
    event_before,          \* GITHUB_EVENT_BEFORE
    commands,              \* the external commands and requests run so far, in order
    response,              \* what the pull-request-files API answered, "none" before
    parent_count,          \* the parent count of the pushed commit, -1 before
    changed_files,         \* the changed-file list, empty until obtained
    paths,                 \* the detector's result (characters), empty before
    cpc,                   \* position: "event", one of the changed-file sources,
                           \* "detect", "output", "done" or "raised"
    c_github_output,       \* the file named by GITHUB_OUTPUT, as the write finds it
    c_output,              \* the paths entries written to the output file or stdout
    c_exit,                \* exit code of the change detector, -1 while it runs
    \* ---- temporary paths of two runs on one host ----
    d_variant,             \* "main", "gpf" or "sh" (secret-handler.py)
    run_id,                \* GITHUB_RUN_ID of each run (digits)
    run_number,            \* GITHUB_RUN_NUMBER of each run (digits)
    tmp_path,              \* tmp_path of each run (characters), empty before
    param_file,            \* param_file (output_path in secret-handler.py) of each run
    host_dirs,             \* the directories the runs created on the host
    dpc,                   \* position of each run: "start", "prepared" or "saved"
    \* ---- secrets loader of the parameter processor ----
    s_variant,             \* "main" (_load_github_secrets) or "gpf" (load_github_secrets)
    salt_key,              \* SECRET_SALT_KEY: "set" or "unset"
    secrets_base64,        \* GITHUB_SECRETS_BASE64: "none", "valid" or "invalid"
    secrets_file,          \* what GITHUB_SECRETS_PATH names: "absent", "valid",
                           \*   "unreadable" (decryption or open fails) or "unparsable"
    file_exists,           \* whether the secrets file is on disk
    loaded_secrets,        \* where the loaded secrets came from, "none" before
    s_log,                 \* what the run logged and did, in order
    spc,                   \* position: "load", "remove", "env", "process" or "done"
    s_exit                 \* exit code of the processor, -1 while it runs

mvars == << variant, specific_environment, num_paths, path_idx, mpc, declared,
            environments, env_idx, deployment, lookup, matrix_items,
            dev_matrix_items, int_matrix_items, prod_matrix_items, custom_matrix_items, matrix,
            config_status, m_github_output, m_exit >>

pvars == << p_variant, p_github_output, github_secrets, file_form, file_parameters, inline_form,
            inline_params, combined_parameters, processed_parameters, ppc, p_output,
            p_exit >>

tvars == << t_variant, tags_json_form, json_tags, tags_key_value, combined_tags, tpc,
            t_github_output, t_output, t_exit >>

cvars == << c_variant, event_name, resource_path, app_name, pr_number, pr_head_sha,
            event_before, commands, response, parent_count, changed_files, paths, cpc,
            c_github_output, c_output, c_exit >>

dvars == << d_variant, run_id, run_number, tmp_path, param_file, host_dirs, dpc >>

svars == << s_variant, salt_key, secrets_base64, secrets_file, file_exists, loaded_secrets, s_log,
            spc, s_exit >>

vars == << mvars, pvars, tvars, cvars, dvars, svars >>

\* what a component leaves alone: the state of the others
notM == << pvars, tvars, cvars, dvars, svars >>
notP == << mvars, tvars, cvars, dvars, svars >>
notT == << mvars, pvars, cvars, dvars, svars >>
notC == << mvars, pvars, tvars, dvars, svars >>
notD == << mvars, pvars, tvars, cvars, svars >>
notS == << mvars, pvars, tvars, cvars, dvars >>

-----------------------------------------------------------------------------
(* Bounds of the model.                                                    *)

MaxEnvs == 2      \* longest declared environments sequence
MaxPaths == 1     \* longest resource path list
MaxDeployments == 2   \* longest deployments sequence of a config

-----------------------------------------------------------------------------
(* Character-level string helpers (Python str methods).                    *)

Range(s) == { s[i] : i \in 1..Len(s) }

\* str.lower() on the letters the model uses
LowerChar(c) ==
    CASE c = "T" -> "t"
      [] c = "R" -> "r"
      [] c = "U" -> "u"
      [] c = "E" -> "e"
      [] c = "F" -> "f"
      [] c = "A" -> "a"
      [] c = "L" -> "l"
      [] c = "S" -> "s"
      [] OTHER -> c

Lower(s) == [ i \in 1..Len(s) |-> LowerChar(s[i]) ]

RECURSIVE LStrip(_)
LStrip(s) == IF s # << >> /\ Head(s) = " " THEN LStrip(Tail(s)) ELSE s

RECURSIVE RStrip(_)
RStrip(s) ==
    IF s # << >> /\ s[Len(s)] = " " THEN RStrip(SubSeq(s, 1, Len(s) - 1)) ELSE s

\* str.strip()
Strip(s) == RStrip(LStrip(s))

\* str.split(sep) for a one-character separator: always at least one piece
RECURSIVE SplitFrom(_, _, _)
SplitFrom(s, sep, cur) ==
    IF s = << >> THEN << cur >>
    ELSE IF Head(s) = sep THEN << cur >> \o SplitFrom(Tail(s), sep, << >>)
    ELSE SplitFrom(Tail(s), sep, Append(cur, Head(s)))

Split(s, sep) == SplitFrom(s, sep, << >>)

\* sep.join(parts) for a one-character separator
RECURSIVE Join(_, _)
Join(parts, sep) ==
    IF parts = << >> THEN << >>
    ELSE IF Len(parts) = 1 THEN parts[1]
    ELSE parts[1] \o << sep >> \o Join(Tail(parts), sep)

-----------------------------------------------------------------------------
(* Values of the deployment config.                                        *)

DEV == << "d", "e", "v" >>
INT == << "i", "n", "t" >>
PROD == << "p", "r", "o", "d" >>
STG == << "s", "t", "g" >>

\* the names a config declares in the model; "int" is handled by the code
\* exactly like the two other well-known names
EnvNames == { DEV, PROD, STG }

\* Python None for a mapping lookup that finds nothing (dict.get(env))
NoneV == "<None>"

\* a YAML scalar under parameters.custom_deployment: a bool, a string, or absent
NoCd == [ t |-> "absent", b |-> FALSE, s |-> << >> ]
BoolV(x) == [ t |-> "bool", b |-> x, s |-> << >> ]
StrV(chars) == [ t |-> "str", b |-> FALSE, s |-> chars ]

\* Python str(value)
PyStr(v) ==
    IF v.t = "bool"
    THEN (IF v.b THEN << "T", "r", "u", "e" >> ELSE << "F", "a", "l", "s", "e" >>)
    ELSE v.s

\* parameters[env]: n_other ordinary keys plus an optional custom_deployment key
Params(n, cd) == [ n_other |-> n, cd |-> cd ]
EmptyParams == Params(0, NoCd)

\* dict.get('custom_deployment', "false")
GetCustomDeployment(params) ==
    IF params.cd.t = "absent" THEN StrV(<< "f", "a", "l", "s", "e" >>) ELSE params.cd

\* Python truthiness of the values looked up
FalsyParams(params) == params.n_other = 0 /\ params.cd.t = "absent"
Falsy(x) == x = NoneV \/ x = ""

\* what one environment can hold in the four required per-environment mappings
EnvData ==
    { [ parameters |-> Params(1, NoCd), runner |-> "ubuntu-latest",
        github_environment |-> "gh-env", aws_region |-> "eu-west-1" ],
      [ parameters |-> Params(1, BoolV(TRUE)), runner |-> "ubuntu-latest",
        github_environment |-> "gh-env", aws_region |-> "eu-west-1" ],
      [ parameters |-> Params(1, StrV(<< "f", "a", "l", "s", "e" >>)), runner |-> "ubuntu-latest",
        github_environment |-> "gh-env", aws_region |-> "eu-west-1" ],
      [ parameters |-> Params(1, BoolV(TRUE)), runner |-> NoneV,
        github_environment |-> "gh-env", aws_region |-> "eu-west-1" ],
      [ parameters |-> Params(1, NoCd), runner |-> "ubuntu-latest",
        github_environment |-> "", aws_region |-> "eu-west-1" ],
      [ parameters |-> Params(1, NoCd), runner |-> "ubuntu-latest",
        github_environment |-> "gh-env", aws_region |-> NoneV ],
      [ parameters |-> EmptyParams, runner |-> "ubuntu-latest",
        github_environment |-> "gh-env", aws_region |-> "eu-west-1" ] }

\* a per-environment entry of the config that no lookup has read yet
Unread == [ parameters |-> EmptyParams, runner |-> "<unread>",
            github_environment |-> "<unread>", aws_region |-> "<unread>" ]

\* the values INPUT_SPECIFIC_ENVIRONMENT takes in the model
Filters ==
    { << >>,
      DEV,
      STG,
      DEV \o << "," >> \o PROD,
      << " " >> \o STG \o << " ", ",", " " >> \o DEV \o << " " >>,
      << "d", "e", ".", ",", "i", "n", "t" >>,
      PROD \o << "," >>,
      << "," >> }

\* all sequences over S of length 0..n
SeqsUpTo(S, n) == UNION { [ 1..k -> S ] : k \in 0..n }

-----------------------------------------------------------------------------
(* Environment selection.                                                  *)

\* one alternative of the pattern against the whole candidate; of the regex
\* syntax the model's alphabet holds '.' (any character) and literals
AltMatches(alt, s) ==
    /\ Len(alt) = Len(s)
    /\ \A i \in 1..Len(s) : alt[i] = "." \/ alt[i] = s[i]

\* re.match(f"^({'|'.join(selected_envs)})$", env_candidate)
ReMatch(selected_envs, env_candidate) ==
    LET pattern_body == Join(selected_envs, "|")
        alts == Split(pattern_body, "|")
    IN  \E k \in 1..Len(alts) : AltMatches(alts[k], env_candidate)

\* [env.strip() for env in specific_environment.split(',') if env.strip()]
SelectedEnvs(filter) ==
    LET parts == Split(filter, ",")
        stripped == [ i \in 1..Len(parts) |-> Strip(parts[i]) ]
        NonEmpty(p) == p # << >>
    IN  SelectSeq(stripped, NonEmpty)

FilterEnvironments(envs, filter) ==
    IF "," \in Range(filter)
    THEN LET selected_envs == SelectedEnvs(filter)
             Matches(e) == ReMatch(selected_envs, e)
         IN  SelectSeq(envs, Matches)
    ELSE IF filter \in Range(envs) THEN << filter >> ELSE << >>

\* the filtering without its "if specific_environment:" guard
SelectEnvironments_Unguarded(envs, filter) == FilterEnvironments(envs, filter)

\* "if specific_environment:" guards the filtering
SelectEnvironments(envs, filter) ==
    IF filter # << >> THEN FilterEnvironments(envs, filter) ELSE envs

-----------------------------------------------------------------------------
(* Matrix items.                                                           *)

\* the matrix item dict; application and resource are dirname and basename of
\* the resource path, and the role secrets, github_vars and secret_pass are
\* copied from the config: none of them is read by any decision
MakeItem(env, path, d) ==
    [ resource_path |-> path, environment |-> env, runner |-> d.runner,
      github_environment |-> d.github_environment, aws_region |-> d.aws_region,
      parameters |-> d.parameters ]

\* Python None returned in place of an item
NoItem ==
    [ resource_path |-> 0, environment |-> << >>, runner |-> NoneV,
      github_environment |-> NoneV, aws_region |-> NoneV, parameters |-> EmptyParams ]

\* a check that never skips: not what the code does
MissingRequired_Never(d) == FALSE

\* "Skip if any required field is empty"
MissingRequired(d) ==
    \/ FalsyParams(d.parameters)
    \/ Falsy(d.runner)
    \/ Falsy(d.github_environment)
    \/ Falsy(d.aws_region)

\* main.py _process_environment: the item, or None when a required field is missing
ProcessEnvironment(env, path, d) ==
    IF MissingRequired(d) THEN NoItem ELSE MakeItem(env, path, d)

\* generate_deployment_matrices.py: the same check, inline in the env loop
GdmProcessEnvironment(env, path, d) ==
    IF MissingRequired(d) THEN NoItem ELSE MakeItem(env, path, d)

\* the comparison without .lower()
CustomDeploymentEnabled_NoLower(params) ==
    PyStr(GetCustomDeployment(params)) = << "t", "r", "u", "e" >>

\* str(params.get('custom_deployment', "false")).lower() == "true"
CustomDeploymentEnabled(params) ==
    Lower(PyStr(GetCustomDeployment(params))) = << "t", "r", "u", "e" >>

EmptyMatrices == [ dev |-> << >>, int |-> << >>, prod |-> << >>, custom |-> << >> ]

\* the if/elif chain on env, then the custom_deployment test
AddToMatrices(m, env, item) ==
    LET byEnv ==
            IF env = DEV THEN [ m EXCEPT !.dev = Append(@, item) ]
            ELSE IF env = INT THEN [ m EXCEPT !.int = Append(@, item) ]
            ELSE IF env = PROD THEN [ m EXCEPT !.prod = Append(@, item) ]
            ELSE m
    IN  IF CustomDeploymentEnabled(item.parameters)
        THEN [ byEnv EXCEPT !.custom = Append(@, item) ]
        ELSE byEnv

\* rcc main(): the four list comprehensions over the generated matrix
RccBuckets(items) ==
    LET IsDev(i) == i.environment = DEV
        IsInt(i) == i.environment = INT
        IsProd(i) == i.environment = PROD
        IsOther(i) == i.environment \notin { DEV, INT, PROD }
    IN  [ dev |-> SelectSeq(items, IsDev), int |-> SelectSeq(items, IsInt),
          prod |-> SelectSeq(items, IsProd), custom |-> SelectSeq(items, IsOther) ]

Globals ==
    [ dev |-> dev_matrix_items, int |-> int_matrix_items,
      prod |-> prod_matrix_items, custom |-> custom_matrix_items ]

SetGlobals(m) ==
    /\ dev_matrix_items' = m.dev
    /\ int_matrix_items' = m.int
    /\ prod_matrix_items' = m.prod
    /\ custom_matrix_items' = m.custom

Extend(g, m) ==
    [ dev |-> g.dev \o m.dev, int |-> g.int \o m.int,
      prod |-> g.prod \o m.prod, custom |-> g.custom \o m.custom ]

\* what loading the config of a resource path gives; "null_deployment" is a
\* deployments list whose first entry is null ("deployments:" followed by "-")
ConfigStatus ==
    { "ok", "missing", "parse_error", "not_mapping", "no_deployments", "null_deployment" }

\* main.py tests "len(deployments) == 0" and then calls deployments[0].get,
\* which raises AttributeError on None; nothing catches it up to sys.exit.
\* generate_deployment_matrices.py tests "not deployments[0]" and goes on to
\* the next resource path.
LoadRaises(v, st) == v = "main" /\ st = "null_deployment"

-----------------------------------------------------------------------------
(* The matrix generators as state machines.                                *)

\* the per-environment mappings of deployments[0] are one fixed document: an
\* entry is chosen when it is first looked up and stays what it was
NoLookup == [ env |-> << >>, d |-> Unread ]

CanRead(env, d) == deployment[env] # Unread => d = deployment[env]

ReadEnv(env, d) == [ deployment EXCEPT ![env] = d ]

\* the env loop of a resource path is over: the locals of the path are gone
EndOfPath ==
    /\ path_idx' = path_idx + 1
    /\ mpc' = "path"
    /\ env_idx' = 1
    /\ declared' = << >>
    /\ environments' = << >>
    /\ deployment' = [ e \in EnvNames |-> Unread ]

\* the env loop goes on to its next iteration
NextEnv(env, d) ==
    /\ env_idx' = env_idx + 1
    /\ deployment' = ReadEnv(env, d)
    /\ UNCHANGED << path_idx, mpc, declared, environments >>

\* the file named by GITHUB_OUTPUT, as a write finds it
GithubOutputs == { "writable", "unwritable", "unset" }

\* main.py's entry point instantiates one action class per invocation, and the
\* stand-alone scripts are separate programs: while one component runs, the
\* state of the other is not there
MIdle ==
    /\ variant = "idle"
    /\ specific_environment = << >>
    /\ num_paths = 0
    /\ path_idx = 0
    /\ mpc = "idle"
    /\ declared = << >>
    /\ environments = << >>
    /\ env_idx = 1
    /\ deployment = [ e \in EnvNames |-> Unread ]
    /\ lookup = NoLookup
    /\ matrix_items = EmptyMatrices
    /\ dev_matrix_items = << >>
    /\ int_matrix_items = << >>
    /\ prod_matrix_items = << >>
    /\ custom_matrix_items = << >>
    /\ matrix = << >>
    /\ config_status = "ok"
    /\ m_github_output = "<unread>"
    /\ m_exit = -1

PIdle ==
    /\ p_variant = "idle"
    /\ github_secrets = << >>
    /\ file_form = "none"
    /\ file_parameters = << >>
    /\ inline_form = "none"
    /\ inline_params = << >>
    /\ combined_parameters = << >>
    /\ processed_parameters = << >>
    /\ ppc = "idle"
    /\ p_github_output = "<unread>"
    /\ p_output = "<nothing>"
    /\ p_exit = -1

TIdle ==
    /\ t_variant = "idle"
    /\ tags_json_form = "none"
    /\ json_tags = << >>
    /\ tags_key_value = << >>
    /\ combined_tags = << >>
    /\ tpc = "idle"
    /\ t_github_output = "<unread>"
    /\ t_output = << >>
    /\ t_exit = -1

CIdle ==
    /\ c_variant = "idle"
    /\ event_name = "none"
    /\ resource_path = << >>
    /\ app_name = << >>
    /\ pr_number = 0
    /\ pr_head_sha = ""
    /\ event_before = ""
    /\ commands = << >>
    /\ response = "none"
    /\ parent_count = -1
    /\ changed_files = << >>
    /\ paths = << >>
    /\ cpc = "idle"
    /\ c_github_output = "<unread>"
    /\ c_output = << >>
    /\ c_exit = -1

\* the two runs of one host
HostRuns == { 1, 2 }

DIdle ==
    /\ d_variant = "idle"
    /\ run_id = [ r \in HostRuns |-> << >> ]
    /\ run_number = [ r \in HostRuns |-> << >> ]
    /\ tmp_path = [ r \in HostRuns |-> << >> ]
    /\ param_file = [ r \in HostRuns |-> << >> ]
    /\ host_dirs = { }
    /\ dpc = [ r \in HostRuns |-> "idle" ]

SIdle ==
    /\ s_variant = "idle"
    /\ salt_key = "unset"
    /\ secrets_base64 = "none"
    /\ secrets_file = "absent"
    /\ file_exists = FALSE
    /\ loaded_secrets = "none"
    /\ s_log = << >>
    /\ spc = "idle"
    /\ s_exit = -1

MInit ==
    /\ variant \in { "main", "gdm", "rcc" }
    /\ specific_environment \in (IF variant = "rcc" THEN { << >> } ELSE Filters)
    /\ num_paths \in (IF variant = "rcc" THEN { 1 } ELSE 0..MaxPaths)
    /\ path_idx = 0
    /\ mpc = "path"
    /\ declared = << >>
    /\ environments = << >>
    /\ env_idx = 1
    /\ deployment = [ e \in EnvNames |-> Unread ]
    /\ lookup = NoLookup
    /\ matrix_items = EmptyMatrices
    /\ dev_matrix_items = << >>
    /\ int_matrix_items = << >>
    /\ prod_matrix_items = << >>
    /\ custom_matrix_items = << >>
    /\ matrix = << >>
    /\ config_status = "ok"
    /\ m_github_output = "<unread>"
    /\ m_exit = -1

\* the deployments entries after the first, each with its environments list
LaterDeployments == SeqsUpTo(SeqsUpTo(EnvNames, 1), MaxDeployments - 1)

\* the last deployments entry consulted: not what the code does
FirstDeployment_Last(deployments) == deployments[Len(deployments)]

\* deployments[0], the only entry of the deployments sequence that is consulted
FirstDeployment(deployments) == deployments[1]

\* a loader that gives up the remaining paths on a broken config: not what the code does
LoadConfig_StopOnBrokenConfig ==
    /\ variant \in { "main", "gdm" }
    /\ mpc = "path"
    /\ path_idx < num_paths
    /\ \E st \in ConfigStatus, envs \in SeqsUpTo(EnvNames, MaxEnvs), later \in LaterDeployments :
          /\ st # "ok" => envs = << >> /\ later = << >>
          /\ config_status' = st
          /\ declared' = envs
          /\ deployment' = [ e \in EnvNames |-> Unread ]
          /\ LET deployments == << envs >> \o later
                 selected == SelectEnvironments(FirstDeployment(deployments), specific_environment)
             IN  IF LoadRaises(variant, st)
                 THEN /\ environments' = << >>
                      /\ path_idx' = path_idx
                      /\ mpc' = "done"
                      /\ m_exit' = 1
                 ELSE IF st \in { "missing", "parse_error", "not_mapping" }
                 THEN /\ environments' = << >>
                      /\ path_idx' = num_paths
                      /\ mpc' = "path"
                      /\ m_exit' = m_exit
                 ELSE IF st # "ok" \/ envs = << >> \/ selected = << >>
                 THEN /\ environments' = << >>
                      /\ path_idx' = path_idx + 1
                      /\ mpc' = "path"
                      /\ m_exit' = m_exit
                 ELSE /\ environments' = selected
                      /\ path_idx' = path_idx
                      /\ mpc' = "env"
                      /\ m_exit' = m_exit
    /\ env_idx' = 1
    /\ lookup' = NoLookup
    /\ matrix_items' = EmptyMatrices
    /\ UNCHANGED << variant, m_github_output, specific_environment, num_paths, dev_matrix_items,
                    int_matrix_items, prod_matrix_items, custom_matrix_items,
                    matrix >>
    /\ UNCHANGED notM

\* main.py/_process_resource_path and generate_deployment_matrices.py/main up to the
\* env loop: find and load the config, read deployments[0].environments, filter
LoadConfig ==
    /\ variant \in { "main", "gdm" }
    /\ mpc = "path"
    /\ path_idx < num_paths
    /\ \E st \in ConfigStatus, envs \in SeqsUpTo(EnvNames, MaxEnvs), later \in LaterDeployments :
          /\ st # "ok" => envs = << >> /\ later = << >>
          /\ config_status' = st
          /\ declared' = envs
          /\ deployment' = [ e \in EnvNames |-> Unread ]
          /\ LET deployments == << envs >> \o later
                 selected == SelectEnvironments(FirstDeployment(deployments), specific_environment)
             IN  IF LoadRaises(variant, st)
                 THEN /\ environments' = << >>
                      /\ path_idx' = path_idx
                      /\ mpc' = "done"
                      /\ m_exit' = 1
                 ELSE IF st # "ok" \/ envs = << >> \/ selected = << >>
                 THEN /\ environments' = << >>
                      /\ path_idx' = path_idx + 1
                      /\ mpc' = "path"
                      /\ m_exit' = m_exit
                 ELSE /\ environments' = selected
                      /\ path_idx' = path_idx
                      /\ mpc' = "env"
                      /\ m_exit' = m_exit
    /\ env_idx' = 1
    /\ lookup' = NoLookup
    /\ matrix_items' = EmptyMatrices
    /\ UNCHANGED << variant, m_github_output, specific_environment, num_paths, dev_matrix_items,
                    int_matrix_items, prod_matrix_items, custom_matrix_items,
                    matrix >>
    /\ UNCHANGED notM

\* one iteration of "for env in environments" of main.py; after the last one
\* _process_resource_path returns and execute extends the four lists
ProcessEnvMain ==
    /\ variant = "main"
    /\ mpc = "env"
    /\ LET env == environments[env_idx] IN
       \E d \in EnvData :
          /\ CanRead(env, d)
          /\ lookup' = [ env |-> env, d |-> d ]
          /\ LET item == ProcessEnvironment(env, path_idx + 1, d)
                 m == IF item # NoItem THEN AddToMatrices(matrix_items, env, item)
                      ELSE matrix_items
             IN  IF env_idx = Len(environments)
                 THEN /\ SetGlobals(Extend(Globals, m))
                      /\ matrix_items' = EmptyMatrices
                      /\ EndOfPath
                 ELSE /\ matrix_items' = m
                      /\ NextEnv(env, d)
                      /\ UNCHANGED << dev_matrix_items, int_matrix_items,
                                      prod_matrix_items, custom_matrix_items >>
    /\ UNCHANGED << variant, m_github_output, specific_environment, num_paths, matrix, config_status,
                    m_exit >>
    /\ UNCHANGED notM

\* one iteration of "for env in environments" of generate_deployment_matrices.py
ProcessEnvGdm ==
    /\ variant = "gdm"
    /\ mpc = "env"
    /\ LET env == environments[env_idx] IN
       \E d \in EnvData :
          /\ CanRead(env, d)
          /\ lookup' = [ env |-> env, d |-> d ]
          /\ LET item == GdmProcessEnvironment(env, path_idx + 1, d)
             IN  IF item # NoItem
                 THEN SetGlobals(AddToMatrices(Globals, env, item))
                 ELSE UNCHANGED << dev_matrix_items, int_matrix_items,
                                   prod_matrix_items, custom_matrix_items >>
          /\ IF env_idx = Len(environments) THEN EndOfPath ELSE NextEnv(env, d)
    /\ UNCHANGED << variant, m_github_output, specific_environment, num_paths, matrix_items, matrix,
                    config_status, m_exit >>
    /\ UNCHANGED notM

\* execute / main: "if not github_output:" return 1 / sys.exit(1), before any
\* resource path is looked at
NoGithubOutput ==
    /\ variant \in { "main", "gdm" }
    /\ mpc = "path"
    /\ path_idx = 0
    /\ m_github_output = "<unread>"
    /\ m_github_output' = "unset"
    /\ mpc' = "done"
    /\ m_exit' = 1
    /\ UNCHANGED << variant, specific_environment, num_paths, path_idx, declared,
                    environments, env_idx, deployment, lookup, matrix_items,
                    dev_matrix_items, int_matrix_items, prod_matrix_items,
                    custom_matrix_items, matrix, config_status >>
    /\ UNCHANGED notM

\* the four matrices are written to GITHUB_OUTPUT after the last resource path;
\* an exception of open or write is not caught and ends the process with 1
WriteMatrices ==
    /\ variant \in { "main", "gdm" }
    /\ mpc = "path"
    /\ path_idx = num_paths
    /\ \E github_output \in { "writable", "unwritable" } :
          /\ m_github_output' = github_output
          /\ m_exit' = (IF github_output = "writable" THEN 0 ELSE 1)
    /\ mpc' = "done"
    /\ UNCHANGED << variant, specific_environment, num_paths, path_idx, declared,
                    environments, env_idx, deployment, lookup, matrix_items,
                    dev_matrix_items, int_matrix_items, prod_matrix_items,
                    custom_matrix_items, matrix, config_status >>
    /\ UNCHANGED notM

\* rcc main(): the config file is missing (exit 1) or is loaded, and
\* generate_matrix starts on deployments' environments
RccLoadConfig ==
    /\ variant = "rcc"
    /\ mpc = "path"
    /\ path_idx < num_paths
    /\ \E st \in { "ok", "missing" }, envs \in SeqsUpTo(EnvNames, MaxEnvs) :
          /\ st # "ok" => envs = << >>
          /\ config_status' = st
          /\ declared' = envs
          /\ environments' = envs
          /\ IF st = "missing"
             THEN /\ mpc' = "done"
                  /\ m_exit' = 1
                  /\ path_idx' = path_idx
             ELSE /\ m_exit' = m_exit
                  /\ IF envs = << >>
                     THEN mpc' = "path" /\ path_idx' = path_idx + 1
                     ELSE mpc' = "env" /\ path_idx' = path_idx
    /\ env_idx' = 1
    /\ UNCHANGED << variant, m_github_output, specific_environment, num_paths, deployment, lookup,
                    matrix_items, dev_matrix_items, int_matrix_items,
                    prod_matrix_items, custom_matrix_items, matrix >>
    /\ UNCHANGED notM

\* one iteration of generate_matrix's env loop: the item is appended unconditionally
\* (replace_secrets changes values of the parameters, never their key set)
RccGenerateItem ==
    /\ variant = "rcc"
    /\ mpc = "env"
    /\ LET env == environments[env_idx] IN
       \E d \in EnvData :
          /\ CanRead(env, d)
          /\ lookup' = [ env |-> env, d |-> d ]
          /\ matrix' = Append(matrix, MakeItem(env, path_idx + 1, d))
          /\ IF env_idx = Len(environments) THEN EndOfPath ELSE NextEnv(env, d)
    /\ UNCHANGED << variant, m_github_output, specific_environment, num_paths, matrix_items,
                    dev_matrix_items, int_matrix_items, prod_matrix_items,
                    custom_matrix_items, config_status, m_exit >>
    /\ UNCHANGED notM

\* rcc main(): the result dict of four matrices is printed
RccPrintResult ==
    /\ variant = "rcc"
    /\ mpc = "path"
    /\ path_idx = num_paths
    /\ SetGlobals(RccBuckets(matrix))
    /\ mpc' = "done"
    /\ m_exit' = 0
    /\ UNCHANGED << variant, m_github_output, specific_environment, num_paths, path_idx, declared,
                    environments, env_idx, deployment, lookup, matrix_items, matrix,
                    config_status >>
    /\ UNCHANGED notM

MNext ==
    \/ LoadConfig
    \/ ProcessEnvMain
    \/ ProcessEnvGdm
    \/ NoGithubOutput
    \/ WriteMatrices
    \/ RccLoadConfig
    \/ RccGenerateItem
    \/ RccPrintResult

\* a run of a matrix generator: the parameter processor is not there
InitMatrix == MInit /\ PIdle /\ TIdle /\ CIdle /\ DIdle /\ SIdle

SpecMatrix == InitMatrix /\ [][MNext]_vars

-----------------------------------------------------------------------------
(* Properties of the matrix generators.                                    *)

\* the four matrices as built so far (main.py: the extended lists followed by
\* the lists of the path in progress)
Emitted == Extend(Globals, matrix_items)

BucketNames == { "dev", "int", "prod", "custom" }

WellKnown == { DEV, INT, PROD }

NonEmptyField(x) == x # NoneV /\ x # ""

NonEmptyParameters(params) == params.n_other > 0 \/ params.cd.t # "absent"

HasAllRequired(d) ==
    /\ NonEmptyParameters(d.parameters)
    /\ NonEmptyField(d.runner)
    /\ NonEmptyField(d.github_environment)
    /\ NonEmptyField(d.aws_region)

\* parameters.custom_deployment, as a string and lower-cased, is "true"
CustomTrue(params) ==
    \/ params.cd.t = "bool" /\ params.cd.b
    \/ params.cd.t = "str" /\ Lower(params.cd.s) = << "t", "r", "u", "e" >>

FullGenerator == variant \in { "main", "gdm" }

\* C1: no item of any emitted matrix (dev, int, prod, custom), in any variant,
\* has an empty or absent runner, github_environment, aws_region or parameters.
C1_NoEmptyRequiredField ==
    \A b \in BucketNames : \A i \in 1..Len(Emitted[b]) : HasAllRequired(Emitted[b][i])

\* C2: an env iteration whose environment is dev, int or prod and whose four
\* required values are all present appends its item exactly once to the bucket
\* of its own name, to neither of the two others, and to custom if and only if
\* str(parameters.custom_deployment).lower() is "true".
C2_Step ==
    (FullGenerator /\ mpc = "env") =>
        LET env == lookup'.env
            d == lookup'.d
            item == MakeItem(env, path_idx + 1, d)
            own(b) == (b = "dev" /\ env = DEV) \/ (b = "int" /\ env = INT)
                          \/ (b = "prod" /\ env = PROD)
                          \/ (b = "custom" /\ CustomTrue(d.parameters))
        IN  (HasAllRequired(d) /\ env \in WellKnown) =>
                \A b \in BucketNames :
                    Emitted'[b] = IF own(b) THEN Append(Emitted[b], item) ELSE Emitted[b]

C2_BucketOfOwnEnvironment == [][C2_Step]_vars

\* C2 witness: environments [dev, prod], custom_deployment: True under dev only:
\* one item in dev, one in prod, none in int, and the dev item in custom.
C2_Witness ==
    /\ mpc = "done"
    /\ FullGenerator
    /\ Len(dev_matrix_items) = 1
    /\ Len(prod_matrix_items) = 1
    /\ int_matrix_items = << >>
    /\ custom_matrix_items = dev_matrix_items
    /\ dev_matrix_items[1].parameters.cd = BoolV(TRUE)
    /\ prod_matrix_items[1].parameters.cd = NoCd

\* C3: an item that has all four required values and whose environment is not
\* dev, int or prod is placed in custom and in none of dev, int, prod; no such
\* item is left out of all four matrices.
C3_Step ==
    (FullGenerator /\ mpc = "env") =>
        LET env == lookup'.env
            d == lookup'.d
            item == MakeItem(env, path_idx + 1, d)
        IN  (HasAllRequired(d) /\ env \notin WellKnown) =>
                /\ Emitted'.custom = Append(Emitted.custom, item)
                /\ Emitted'.dev = Emitted.dev
                /\ Emitted'.int = Emitted.int
                /\ Emitted'.prod = Emitted.prod

C3_Rcc ==
    (variant = "rcc" /\ mpc = "done" /\ m_exit = 0) =>
        \A i \in 1..Len(matrix) :
            (HasAllRequired(matrix[i]) /\ matrix[i].environment \notin WellKnown) =>
                /\ \E j \in 1..Len(custom_matrix_items) : custom_matrix_items[j] = matrix[i]
                /\ \A b \in { "dev", "int", "prod" } :
                       \A j \in 1..Len(Globals[b]) : Globals[b][j] # matrix[i]

C3_OtherEnvironmentsInCustom == [][C3_Step /\ C3_Rcc']_vars

\* C4: with no filter (empty specific_environment) the environments iterated
\* for a resource path are the declared ones of deployments[0]: same elements,
\* same order, duplicates kept.
C4_UnfilteredIsDeclared ==
    (FullGenerator /\ specific_environment = << >> /\ config_status = "ok"
        /\ declared # << >>) =>
        /\ environments = declared
        /\ mpc = "env"
        /\ lookup # NoLookup => lookup.env = declared[env_idx - 1]

\* C4 witness: no filter, declared [dev, dev], the second iteration is next.
C4_Witness ==
    /\ FullGenerator
    /\ specific_environment = << >>
    /\ declared = << DEV, DEV >>
    /\ environments = << DEV, DEV >>
    /\ env_idx = 2
    /\ lookup.env = DEV

\* the trimmed non-empty comma-separated names of a filter
ListedNames(filter) ==
    LET parts == Split(filter, ",")
    IN  { Strip(parts[i]) : i \in 1..Len(parts) } \ { << >> }

\* the subsequence of envs, in order, of the names literally listed
Intersection(envs, filter) ==
    LET Listed(e) == e \in ListedNames(filter)
    IN  SelectSeq(envs, Listed)

\* C5: for a filter containing a comma the selected environments are exactly
\* the declared names, in declared order, equal to one of the trimmed non-empty
\* comma-separated names of the filter.
C5_CommaFilterIsIntersection ==
    (FullGenerator /\ "," \in Range(specific_environment) /\ config_status = "ok"
        /\ declared # << >>) =>
        environments = Intersection(declared, specific_environment)

-----------------------------------------------------------------------------
(* Parameters and secrets.                                                 *)

MaxFileParams == 2     \* longest parameter file
MaxInlineParams == 2   \* longest inline parameter document

\* the placeholder prefix "SECRET:"
SECRET == << "S", "E", "C", "R", "E", "T", ":" >>

\* a ParameterValue that is not a str (a JSON number)
NumV == [ t |-> "num", b |-> FALSE, s |-> << >> ]

\* isinstance(value, str)
IsStr(v) == v.t = "str"

\* {"ParameterKey": k, "ParameterValue": v}
Param(k, v) == [ ParameterKey |-> k, ParameterValue |-> v ]

\* str.startswith(prefix)
StartsWith(s, prefix) ==
    Len(s) >= Len(prefix) /\ SubSeq(s, 1, Len(prefix)) = prefix

\* str.replace(old, new): every non-overlapping occurrence, left to right
RECURSIVE Replace(_, _, _)
Replace(s, old, new) ==
    IF s = << >> THEN << >>
    ELSE IF StartsWith(s, old)
         THEN new \o Replace(SubSeq(s, Len(old) + 1, Len(s)), old, new)
         ELSE << Head(s) >> \o Replace(Tail(s), old, new)

\* the placeholder test and substitution every processor repeats:
\*   if isinstance(value, str) and value.startswith("SECRET:"):
\*       secret_name = value.replace("SECRET:", "")
\*       if secret_name in secrets: value = secrets[secret_name]
ResolveValue(value, secrets) ==
    IF IsStr(value) /\ StartsWith(value.s, SECRET)
    THEN LET secret_name == Replace(value.s, SECRET, << >>)
         IN  IF secret_name \in DOMAIN secrets
             THEN StrV(secrets[secret_name])
             ELSE value
    ELSE value

ResolveAll(recs, secrets) ==
    [ i \in 1..Len(recs) |->
        Param(recs[i].ParameterKey, ResolveValue(recs[i].ParameterValue, secrets)) ]

\* main.py _process_file_parameters: nothing for a falsy document (the {} of an
\* unreadable file, an empty list or mapping); else the records of the list, or
\* one record per item of the mapping, placeholders substituted
ProcessFileParameters(form, recs, secrets) ==
    IF form = "unreadable" \/ recs = << >> THEN << >> ELSE ResolveAll(recs, secrets)

\* get-parameter-file.py main: the same for its "if file_parameters:" block
GpfProcessFileParameters(form, recs, secrets) ==
    IF form = "unreadable" \/ recs = << >> THEN << >> ELSE ResolveAll(recs, secrets)

\* secret-handler.py process_parameters_with_secrets: the list with its
\* placeholders substituted, or a new mapping with the same keys
ProcessParametersWithSecrets(recs, secrets) == ResolveAll(recs, secrets)

\* existing_params = {param["ParameterKey"]: i for i, param in enumerate(combined_parameters)}
\* (a later index overwrites an earlier one of the same key)
ExistingParams(combined) ==
    [ k \in { combined[i].ParameterKey : i \in 1..Len(combined) } |->
        CHOOSE i \in 1..Len(combined) :
            /\ combined[i].ParameterKey = k
            /\ \A j \in (i + 1)..Len(combined) : combined[j].ParameterKey # k ]

\* a loop that updates the records the list has and appends none: not what the code does
RECURSIVE MergeLoop_UpdateOnly(_, _, _, _)
MergeLoop_UpdateOnly(inline, combined, existing_params, secrets) ==
    IF inline = << >> THEN combined
    ELSE LET key == Head(inline).ParameterKey
             param == Param(key, ResolveValue(Head(inline).ParameterValue, secrets))
             updated ==
                 IF key \in DOMAIN existing_params
                 THEN [ combined EXCEPT ![existing_params[key]] = param ]
                 ELSE combined
         IN  MergeLoop_UpdateOnly(Tail(inline), updated, existing_params, secrets)

\* "for param in inline_params": substitute, then update at the index recorded
\* before the loop, or append
RECURSIVE MergeLoop(_, _, _, _)
MergeLoop(inline, combined, existing_params, secrets) ==
    IF inline = << >> THEN combined
    ELSE LET key == Head(inline).ParameterKey
             param == Param(key, ResolveValue(Head(inline).ParameterValue, secrets))
             updated ==
                 IF key \in DOMAIN existing_params
                 THEN [ combined EXCEPT ![existing_params[key]] = param ]
                 ELSE Append(combined, param)
         IN  MergeLoop(Tail(inline), updated, existing_params, secrets)

\* the merge with every inline record appended, none replacing a file record
ProcessInlineParameters_AppendOnly(form, inline, combined, secrets) ==
    IF form = "invalid" THEN combined ELSE combined \o ResolveAll(inline, secrets)

\* main.py _process_inline_parameters: on a JSONDecodeError the list is
\* returned as it was
ProcessInlineParameters(form, inline, combined, secrets) ==
    IF form = "invalid" THEN combined
    ELSE MergeLoop(inline, combined, ExistingParams(combined), secrets)

\* get-parameter-file.py main: the same merge, inline in its try block
GpfMergeInline(inline, combined, secrets) ==
    MergeLoop(inline, combined, ExistingParams(combined), secrets)

\* the documents of the model
FileKeys == { "A", "B" }
InlineKeys == { "A", "C" }

FileValues ==
    { StrV(<< "v" >>), StrV(SECRET \o << "a" >>), StrV(SECRET \o SECRET \o << "a" >>),
      NumV }

InlineValues == { StrV(<< "w" >>), StrV(SECRET \o << "a" >>) }

FileRecords == { Param(k, v) : k \in FileKeys, v \in FileValues }
InlineRecords == { Param(k, v) : k \in InlineKeys, v \in InlineValues }

\* a JSON object holds each key once
DistinctKeys(recs) ==
    \A i, j \in 1..Len(recs) : i # j => recs[i].ParameterKey # recs[j].ParameterKey

Documents(form, records, n) ==
    IF form = "list" THEN SeqsUpTo(records, n)
    ELSE IF form = "dict" THEN { d \in SeqsUpTo(records, n) : DistinctKeys(d) }
    ELSE { << >> }

\* no secret; a secret named a; a secret named SECRET:a
SecretMaps ==
    { << >>,
      [ n \in { << "a" >> } |-> << "s", "1" >> ],
      [ n \in { SECRET \o << "a" >> } |-> << "s", "2" >> ] }

-----------------------------------------------------------------------------
(* The parameter processors as state machines.                             *)

PInit ==
    /\ p_variant \in { "main", "gpf", "sh" }
    /\ github_secrets \in SecretMaps
    /\ file_form \in (IF p_variant = "sh" THEN { "unreadable", "list", "dict" }
                      ELSE { "none", "unreadable", "list", "dict" })
    /\ file_parameters \in Documents(file_form, FileRecords, MaxFileParams)
    /\ inline_form \in (IF p_variant = "sh" THEN { "none" }
                        ELSE { "none", "null", "invalid", "list", "dict" })
    /\ inline_params \in Documents(inline_form, InlineRecords, MaxInlineParams)
    /\ combined_parameters = << >>
    /\ processed_parameters = << >>
    /\ ppc = "file"
    /\ p_github_output = "<unread>"
    /\ p_output = "<nothing>"
    /\ p_exit = -1

\* main.py execute: "if parameter_file_path:" read and process the file
PFileMain ==
    /\ p_variant = "main"
    /\ ppc = "file"
    /\ combined_parameters' =
           IF file_form = "none" THEN << >>
           ELSE ProcessFileParameters(file_form, file_parameters, github_secrets)
    /\ ppc' = "inline"
    /\ UNCHANGED << p_variant, p_github_output, github_secrets, file_form, file_parameters, inline_form,
                    inline_params, processed_parameters, p_output, p_exit >>
    /\ UNCHANGED notP

\* main.py execute: "if inline_parameters and inline_parameters != 'null':" merge
PInlineMain ==
    /\ p_variant = "main"
    /\ ppc = "inline"
    /\ combined_parameters' =
           IF inline_form \in { "none", "null" } THEN combined_parameters
           ELSE ProcessInlineParameters(inline_form, inline_params, combined_parameters,
                                        github_secrets)
    /\ ppc' = "save"
    /\ UNCHANGED << p_variant, p_github_output, github_secrets, file_form, file_parameters, inline_form,
                    inline_params, processed_parameters, p_output, p_exit >>
    /\ UNCHANGED notP

\* main.py Action.write_output: the line is appended to the GITHUB_OUTPUT file;
\* an exception of open or write is caught and logged; without GITHUB_OUTPUT
\* the line is printed. Nothing is returned or raised.
WriteOutput(github_output, line, written) ==
    IF github_output = "writable" THEN line ELSE written

\* main.py execute: _save_parameters writes the file and PARAM_FILE (1 when
\* writing the parameter file raises), or PARAM_FILE is written empty
PSaveMain ==
    /\ p_variant = "main"
    /\ ppc = "save"
    /\ IF combined_parameters # << >>
       THEN \E saved \in BOOLEAN :
               IF saved
               THEN \E github_output \in GithubOutputs :
                       /\ p_github_output' = github_output
                       /\ p_output' = WriteOutput(github_output,
                                                  "PARAM_FILE=file:///<param_file>", p_output)
                       /\ p_exit' = 0
               ELSE UNCHANGED << p_github_output, p_output >> /\ p_exit' = 1
       ELSE \E github_output \in GithubOutputs :
               /\ p_github_output' = github_output
               /\ p_output' = WriteOutput(github_output, "PARAM_FILE=", p_output)
               /\ p_exit' = 0
    /\ ppc' = "done"
    /\ UNCHANGED << p_variant, github_secrets, file_form, file_parameters, inline_form,
                    inline_params, combined_parameters, processed_parameters >>
    /\ UNCHANGED notP

\* get-parameter-file.py main: the parameter file
PFileGpf ==
    /\ p_variant = "gpf"
    /\ ppc = "file"
    /\ combined_parameters' =
           IF file_form = "none" THEN << >>
           ELSE GpfProcessFileParameters(file_form, file_parameters, github_secrets)
    /\ ppc' = "inline"
    /\ UNCHANGED << p_variant, p_github_output, github_secrets, file_form, file_parameters, inline_form,
                    inline_params, processed_parameters, p_output, p_exit >>
    /\ UNCHANGED notP

\* get-parameter-file.py main: the inline parameters; a JSONDecodeError with no
\* parameter so far is sys.exit(1)
PInlineGpf ==
    /\ p_variant = "gpf"
    /\ ppc = "inline"
    /\ IF inline_form \in { "none", "null" }
       THEN UNCHANGED << combined_parameters, p_exit >> /\ ppc' = "save"
       ELSE IF inline_form = "invalid"
            THEN /\ UNCHANGED combined_parameters
                 /\ IF combined_parameters = << >>
                    THEN p_exit' = 1 /\ ppc' = "done"
                    ELSE p_exit' = p_exit /\ ppc' = "save"
            ELSE /\ combined_parameters' =
                        GpfMergeInline(inline_params, combined_parameters, github_secrets)
                 /\ p_exit' = p_exit
                 /\ ppc' = "save"
    /\ UNCHANGED << p_variant, p_github_output, github_secrets, file_form, file_parameters, inline_form,
                    inline_params, processed_parameters, p_output >>
    /\ UNCHANGED notP

\* get-parameter-file.py main: the parameter file and PARAM_FILE are written
\* (sys.exit(1) when that raises), or PARAM_FILE is written empty; the
\* GITHUB_OUTPUT file is opened through os.environ['GITHUB_OUTPUT'], so that an
\* unset variable raises as an unwritable file does
PSaveGpf ==
    /\ p_variant = "gpf"
    /\ ppc = "save"
    /\ IF combined_parameters # << >>
       THEN \E saved \in BOOLEAN :
               IF saved
               THEN \E github_output \in GithubOutputs :
                       /\ p_github_output' = github_output
                       /\ IF github_output = "writable"
                          THEN p_output' = "PARAM_FILE=file:///<param_file>" /\ p_exit' = 0
                          ELSE p_output' = p_output /\ p_exit' = 1
               ELSE UNCHANGED << p_github_output, p_output >> /\ p_exit' = 1
       ELSE \E github_output \in GithubOutputs :
               /\ p_github_output' = github_output
               /\ IF github_output = "writable"
                  THEN p_output' = "PARAM_FILE=" /\ p_exit' = 0
                  ELSE p_output' = p_output /\ p_exit' = 1
    /\ ppc' = "done"
    /\ UNCHANGED << p_variant, github_secrets, file_form, file_parameters, inline_form,
                    inline_params, combined_parameters, processed_parameters >>
    /\ UNCHANGED notP

\* secret-handler.py process_parameters_command: exit 1 with no secret or an
\* unreadable parameter file, else the processed parameters are written
ShProcess ==
    /\ p_variant = "sh"
    /\ ppc = "file"
    /\ IF DOMAIN github_secrets = { } \/ file_form = "unreadable"
       THEN /\ p_exit' = 1
            /\ UNCHANGED processed_parameters
       ELSE /\ processed_parameters' =
                   ProcessParametersWithSecrets(file_parameters, github_secrets)
            /\ p_exit' = 0
    /\ ppc' = "done"
    /\ UNCHANGED << p_variant, p_github_output, github_secrets, file_form, file_parameters, inline_form,
                    inline_params, combined_parameters, p_output >>
    /\ UNCHANGED notP

PNext ==
    \/ PFileMain
    \/ PInlineMain
    \/ PSaveMain
    \/ PFileGpf
    \/ PInlineGpf
    \/ PSaveGpf
    \/ ShProcess

\* a run of a parameter processor: the matrix generator is not there
InitParam == MIdle /\ PInit /\ TIdle /\ CIdle /\ DIdle /\ SIdle

SpecParam == InitParam /\ [][PNext]_vars

-----------------------------------------------------------------------------
(* Properties of the parameter processors.                                 *)

Merger == p_variant \in { "main", "gpf" }

KeysOf(l) == { l[i].ParameterKey : i \in 1..Len(l) }

Count(l, k) == Cardinality({ i \in 1..Len(l) : l[i].ParameterKey = k })

\* the substring test: sub in s
Contains(s, sub) ==
    \E i \in 1..(Len(s) - Len(sub) + 1) : SubSeq(s, i, i + Len(sub) - 1) = sub

\* <name> of a value SECRET:<name>: what follows the prefix
NameOf(v) == SubSeq(v.s, Len(SECRET) + 1, Len(v.s))

IsPlaceholder(v) == IsStr(v) /\ StartsWith(v.s, SECRET)

\* C6: once the merge is over, each ParameterKey occurs exactly once in the
\* merged parameter list, whatever the file source and the inline source are.
C6_EachKeyOnce ==
    (Merger /\ ppc \in { "save", "done" }) =>
        \A k \in KeysOf(combined_parameters) : Count(combined_parameters, k) = 1

\* C7: merging one inline record r into a file-sourced list L gives a list with
\* exactly one record of r's key, and merging r again into that list gives the
\* same list.
C7_Step ==
    (Merger /\ ppc = "inline" /\ inline_form = "list" /\ Len(inline_params) = 1) =>
        LET r == inline_params[1]
            once == combined_parameters'
            twice == IF p_variant = "main"
                     THEN ProcessInlineParameters("list", << r >>, once, github_secrets)
                     ELSE GpfMergeInline(<< r >>, once, github_secrets)
        IN  /\ twice = once
            /\ Count(once, r.ParameterKey) = 1

C7_MergeIdempotentOnKeys == [][C7_Step]_vars

\* the value an inline record carries into the merge: the secret a placeholder
\* names when there is one by that name, else the value as written
Carried(v) ==
    IF IsPlaceholder(v) /\ NameOf(v) \in DOMAIN github_secrets
    THEN StrV(github_secrets[NameOf(v)])
    ELSE v

\* C8: the merge step keeps every file-sourced record at its position; a record
\* whose key no inline record has is unchanged; the (last) file position of a key
\* that inline records have carries the value of the (last) inline record of that
\* key; the records after the file positions are the inline records whose key the
\* file-sourced list does not have, in inline order.
C8_Step ==
    (Merger /\ ppc = "inline" /\ inline_form \in { "list", "dict" }) =>
        LET F == combined_parameters
            M == combined_parameters'
            I == [ i \in 1..Len(inline_params) |->
                     Param(inline_params[i].ParameterKey,
                           Carried(inline_params[i].ParameterValue)) ]
            LastOf(l, i) == \A j \in (i + 1)..Len(l) : l[j].ParameterKey # l[i].ParameterKey
            IsNew(r) == r.ParameterKey \notin KeysOf(F)
            new == SelectSeq(I, IsNew)
        IN  /\ Len(M) = Len(F) + Len(new)
            /\ \A i \in 1..Len(F) :
                  /\ M[i].ParameterKey = F[i].ParameterKey
                  /\ F[i].ParameterKey \notin KeysOf(I) => M[i] = F[i]
                  /\ (F[i].ParameterKey \in KeysOf(I) /\ LastOf(F, i)) =>
                         \E j \in 1..Len(I) :
                            /\ I[j].ParameterKey = F[i].ParameterKey
                            /\ LastOf(I, j)
                            /\ M[i] = I[j]
            /\ SubSeq(M, Len(F) + 1, Len(M)) = new

SourceValues ==
    { file_parameters[i].ParameterValue : i \in 1..Len(file_parameters) }
        \cup { inline_params[i].ParameterValue : i \in 1..Len(inline_params) }

\* "SECRET:" occurs in the sources only as the prefix of a placeholder, each
\* placeholder names a secret of the map, and no secret holds "SECRET:"
EveryPlaceholderNamesASecret ==
    /\ \A v \in SourceValues :
          (IsStr(v) /\ Contains(v.s, SECRET)) =>
              IsPlaceholder(v) /\ NameOf(v) \in DOMAIN github_secrets
    /\ \A n \in DOMAIN github_secrets : ~Contains(github_secrets[n], SECRET)

NoPlaceholderIn(l) ==
    \A i \in 1..Len(l) :
        IsStr(l[i].ParameterValue) => ~Contains(l[i].ParameterValue.s, SECRET)

\* C9: when every SECRET:<name> value of the sources names a secret of the map,
\* no ParameterValue of the resolved output contains "SECRET:".
C9_NoPlaceholderLeft ==
    EveryPlaceholderNamesASecret =>
        /\ (Merger /\ ppc \in { "save", "done" }) => NoPlaceholderIn(combined_parameters)
        /\ (p_variant = "sh" /\ ppc = "done" /\ p_exit = 0) =>
               NoPlaceholderIn(processed_parameters)

\* the records of the file whose placeholder names no secret are in l, at their
\* position, as they were written
MissesKept(l) ==
    /\ Len(l) = Len(file_parameters)
    /\ \A i \in 1..Len(file_parameters) :
          LET v == file_parameters[i].ParameterValue
          IN  (IsPlaceholder(v) /\ NameOf(v) \notin DOMAIN github_secrets) =>
                  l[i] = file_parameters[i]

\* C10: a file parameter SECRET:<name> whose <name> is not in the secret map is
\* in the resolved list with its key and its placeholder unchanged, and the
\* processor has not failed (the secret-handler is taken with a non-empty map).
C10_MissingSecretKept ==
    /\ (Merger /\ ppc = "inline" /\ file_form \in { "list", "dict" }) =>
           p_exit = -1 /\ MissesKept(combined_parameters)
    /\ (p_variant = "sh" /\ ppc = "done" /\ file_form \in { "list", "dict" }
            /\ DOMAIN github_secrets # { }) =>
           p_exit = 0 /\ MissesKept(processed_parameters)

\* C11: inline text that is not JSON (non-empty, not 'null'): with no
\* file-sourced record the run ends with a non-zero exit code; with file-sourced
\* records the merge step leaves them as they are and the run goes on to write
\* them.
C11_Step ==
    /\ (Merger /\ ppc = "inline" /\ inline_form = "invalid"
            /\ combined_parameters # << >>) =>
           /\ combined_parameters' = combined_parameters
           /\ ppc' = "save"
           /\ p_exit' = -1
    /\ (Merger /\ ppc = "save" /\ inline_form = "invalid"
            /\ combined_parameters # << >>) =>
           combined_parameters' = combined_parameters
    /\ (Merger' /\ ppc' = "done" /\ inline_form' = "invalid"
            /\ combined_parameters' = << >>) =>
           p_exit' > 0

C11_InvalidInlineJson == [][C11_Step]_vars

-----------------------------------------------------------------------------
(* Tags.                                                                   *)

MaxJsonTags == 2     \* longest INPUT_TAGS list
MaxTagLines == 2     \* most lines of INPUT_TAGS_KEY_VALUE

\* {"Key": k, "Value": v}
Tag(k, v) == [ Key |-> k, Value |-> v ]

\* str.splitlines() on "\n": no piece for the end of the text after a last "\n"
SplitLines(text) ==
    LET parts == Split(text, "\n")
    IN  IF parts[Len(parts)] = << >> THEN SubSeq(parts, 1, Len(parts) - 1) ELSE parts

\* the index of the first c in s (c is in s)
FirstIndex(s, c) == CHOOSE i \in 1..Len(s) : s[i] = c /\ \A j \in 1..(i - 1) : s[j] # c

QuoteChars == { "\"", "'" }

\* re.sub(r'^["\'](.*)["\']$', r'\1', value)
StripQuotes(value) ==
    IF Len(value) >= 2 /\ value[1] \in QuoteChars /\ value[Len(value)] \in QuoteChars
    THEN SubSeq(value, 2, Len(value) - 1)
    ELSE value

\* "if not line or line.startswith('#'): continue" and "if '=' in line:"
IsTagLine(line) == line # << >> /\ Head(line) # "#" /\ "=" \in Range(line)

\* key, value = line.split('=', 1), both stripped, the value unquoted
TagOfLine(line) ==
    LET i == FirstIndex(line, "=")
    IN  Tag(Strip(SubSeq(line, 1, i - 1)),
            StripQuotes(Strip(SubSeq(line, i + 1, Len(line)))))

\* the stripped lines of the text
TagLines(text) ==
    LET lines == SplitLines(text)
    IN  [ i \in 1..Len(lines) |-> Strip(lines[i]) ]

\* existing_tags = {tag["Key"]: i for i, tag in enumerate(combined_tags)}
ExistingTags(combined) ==
    [ k \in { combined[i].Key : i \in 1..Len(combined) } |->
        CHOOSE i \in 1..Len(combined) :
            /\ combined[i].Key = k
            /\ \A j \in (i + 1)..Len(combined) : combined[j].Key # k ]

\* main.py _process_key_value_tags, the loop over the lines: replace at the
\* recorded index, or append and record the index
RECURSIVE KeyValueLoop(_, _, _)
KeyValueLoop(lines, combined, existing_tags) ==
    IF lines = << >> THEN combined
    ELSE IF ~IsTagLine(Head(lines))
         THEN KeyValueLoop(Tail(lines), combined, existing_tags)
         ELSE LET tag == TagOfLine(Head(lines))
              IN  IF tag.Key \in DOMAIN existing_tags
                  THEN KeyValueLoop(Tail(lines),
                                    [ combined EXCEPT ![existing_tags[tag.Key]] = tag ],
                                    existing_tags)
                  ELSE KeyValueLoop(Tail(lines), Append(combined, tag),
                                    [ k \in DOMAIN existing_tags \cup { tag.Key } |->
                                        IF k = tag.Key THEN Len(combined) + 1
                                        ELSE existing_tags[k] ])

\* main.py _process_json_tags: combined_tags.extend(json_tags), or the list as
\* it was on a JSONDecodeError
ProcessJsonTags(form, tags, combined) ==
    IF form = "invalid" THEN combined ELSE combined \o tags

\* main.py _process_key_value_tags
ProcessKeyValueTags(text, combined) ==
    KeyValueLoop(TagLines(text), combined, ExistingTags(combined))

\* process-tags.py: every tag line of the text is appended
PtKeyValueTags(text) ==
    LET lines == SelectSeq(TagLines(text), IsTagLine)
    IN  [ i \in 1..Len(lines) |-> TagOfLine(lines[i]) ]

\* process-tags.py: "for tag in json_tags": override at the index recorded
\* before the loop, or append
RECURSIVE PtJsonLoop(_, _, _)
PtJsonLoop(tags, combined, existing_tags) ==
    IF tags = << >> THEN combined
    ELSE LET tag == Head(tags)
             updated == IF tag.Key \in DOMAIN existing_tags
                        THEN [ combined EXCEPT ![existing_tags[tag.Key]] = tag ]
                        ELSE Append(combined, tag)
         IN  PtJsonLoop(Tail(tags), updated, existing_tags)

PtJsonTags(form, tags, combined) ==
    IF form = "invalid" THEN combined
    ELSE PtJsonLoop(tags, combined, ExistingTags(combined))

\* the inputs of the model
TagA == << "A" >>
TagB == << "B" >>
TagC == << "C" >>

JsonTagRecords == { Tag(k, << "j" >>) : k \in { TagA, TagB } }

TagLineTexts ==
    { << >>,
      << "#", "A", "=", "x" >>,
      << "A", "=", "x" >>,
      << " ", "C", " ", "=", " ", "y", " " >>,
      << "A", "=", "\"", "q", "\"" >>,
      << "C", "=", "'", "q", "'" >>,
      << "C", "=", "\"", "q", "'" >>,
      << "A", "=", "x", "=", "y" >>,
      << "A" >> }

\* the texts of up to n lines
TextsOf(n) == { Join(ls, "\n") : ls \in SeqsUpTo(TagLineTexts, n) }

-----------------------------------------------------------------------------
(* The tag processors as state machines.                                   *)

TInit ==
    /\ t_variant \in { "main", "pt" }
    /\ tags_json_form \in { "none", "invalid", "list" }
    /\ json_tags \in (IF tags_json_form = "list"
                      THEN SeqsUpTo(JsonTagRecords, MaxJsonTags) ELSE { << >> })
    /\ tags_key_value \in TextsOf(MaxTagLines)
    /\ combined_tags = << >>
    /\ tpc = (IF t_variant = "main" THEN "json" ELSE "kv")
    /\ t_github_output = "<unread>"
    /\ t_output = << >>
    /\ t_exit = -1

\* main.py TagProcessor.execute: "if tags_json:"
TJsonMain ==
    /\ t_variant = "main"
    /\ tpc = "json"
    /\ combined_tags' =
           IF tags_json_form = "none" THEN combined_tags
           ELSE ProcessJsonTags(tags_json_form, json_tags, combined_tags)
    /\ tpc' = "kv"
    /\ UNCHANGED << t_variant, tags_json_form, json_tags, tags_key_value,
                    t_github_output, t_output, t_exit >>
    /\ UNCHANGED notT

\* main.py TagProcessor.execute: "if tags_key_value:"
TKeyValueMain ==
    /\ t_variant = "main"
    /\ tpc = "kv"
    /\ combined_tags' =
           IF tags_key_value = << >> THEN combined_tags
           ELSE ProcessKeyValueTags(tags_key_value, combined_tags)
    /\ tpc' = "write"
    /\ UNCHANGED << t_variant, tags_json_form, json_tags, tags_key_value,
                    t_github_output, t_output, t_exit >>
    /\ UNCHANGED notT

\* the write step without the "if not combined_tags:" check
TWriteMain_NoEmptyCheck ==
    /\ t_variant = "main"
    /\ tpc = "write"
    /\ \E github_output \in GithubOutputs :
          /\ t_github_output' = github_output
          /\ t_output' = IF github_output = "writable"
                         THEN Append(t_output, combined_tags) ELSE t_output
          /\ t_exit' = 0
    /\ tpc' = "done"
    /\ UNCHANGED << t_variant, tags_json_form, json_tags, tags_key_value,
                    combined_tags >>
    /\ UNCHANGED notT

\* main.py TagProcessor.execute: return 1 with no tag; else write_output, which
\* logs a failed write and prints when GITHUB_OUTPUT is not set, and return 0
TWriteMain ==
    /\ t_variant = "main"
    /\ tpc = "write"
    /\ IF combined_tags = << >>
       THEN /\ t_exit' = 1
            /\ UNCHANGED << t_github_output, t_output >>
       ELSE \E github_output \in GithubOutputs :
               /\ t_github_output' = github_output
               /\ t_output' = IF github_output = "writable"
                              THEN Append(t_output, combined_tags) ELSE t_output
               /\ t_exit' = 0
    /\ tpc' = "done"
    /\ UNCHANGED << t_variant, tags_json_form, json_tags, tags_key_value,
                    combined_tags >>
    /\ UNCHANGED notT

\* process-tags.py main: "if tags_key_value:", first
TKeyValuePt ==
    /\ t_variant = "pt"
    /\ tpc = "kv"
    /\ combined_tags' =
           IF tags_key_value = << >> THEN << >> ELSE PtKeyValueTags(tags_key_value)
    /\ tpc' = "json"
    /\ UNCHANGED << t_variant, tags_json_form, json_tags, tags_key_value,
                    t_github_output, t_output, t_exit >>
    /\ UNCHANGED notT

\* process-tags.py main: "if tags_json:", second
TJsonPt ==
    /\ t_variant = "pt"
    /\ tpc = "json"
    /\ combined_tags' =
           IF tags_json_form = "none" THEN combined_tags
           ELSE PtJsonTags(tags_json_form, json_tags, combined_tags)
    /\ tpc' = "write"
    /\ UNCHANGED << t_variant, tags_json_form, json_tags, tags_key_value,
                    t_github_output, t_output, t_exit >>
    /\ UNCHANGED notT

\* process-tags.py main: sys.exit(1) with no tag; else the TAGS line is written,
\* and an open() or os.environ[] that raises ends the script with exit code 1
TWritePt ==
    /\ t_variant = "pt"
    /\ tpc = "write"
    /\ IF combined_tags = << >>
       THEN /\ t_exit' = 1
            /\ UNCHANGED << t_github_output, t_output >>
       ELSE \E github_output \in GithubOutputs :
               /\ t_github_output' = github_output
               /\ IF github_output = "writable"
                  THEN t_output' = Append(t_output, combined_tags) /\ t_exit' = 0
                  ELSE t_output' = t_output /\ t_exit' = 1
    /\ tpc' = "done"
    /\ UNCHANGED << t_variant, tags_json_form, json_tags, tags_key_value,
                    combined_tags >>
    /\ UNCHANGED notT

TNext ==
    \/ TJsonMain
    \/ TKeyValueMain
    \/ TWriteMain
    \/ TKeyValuePt
    \/ TJsonPt
    \/ TWritePt

\* a run of a tag processor
InitTags == MIdle /\ PIdle /\ TInit /\ CIdle /\ DIdle /\ SIdle

SpecTags == InitTags /\ [][TNext]_vars

-----------------------------------------------------------------------------
(* Properties of the tag processors.                                       *)

TagKeys(l) == { l[i].Key : i \in 1..Len(l) }

DistinctTagKeys(l) == \A i, j \in 1..Len(l) : i # j => l[i].Key # l[j].Key

\* the tags of the JSON source and of the key=value source, each on its own
JsonSourced == IF tags_json_form = "list" THEN json_tags ELSE << >>
KeyValueSourced == PtKeyValueTags(tags_key_value)

\* C12: once both sources are merged (each listing a key at most once), a key
\* of both sources is at the position it has in the JSON-sourced list with the
\* value of the key=value source, and the keys of the key=value source alone
\* follow all JSON-sourced keys.
C12_KeyValueOverridesJson ==
    (tpc \in { "write", "done" } /\ DistinctTagKeys(JsonSourced)
        /\ DistinctTagKeys(KeyValueSourced)) =>
        LET J == JsonSourced
            K == KeyValueSourced
            IsNew(tag) == tag.Key \notin TagKeys(J)
        IN  /\ Len(combined_tags) = Len(J) + Len(SelectSeq(K, IsNew))
            /\ \A i \in 1..Len(J) :
                  /\ combined_tags[i].Key = J[i].Key
                  /\ \A n \in 1..Len(K) :
                        K[n].Key = J[i].Key => combined_tags[i].Value = K[n].Value
            /\ SubSeq(combined_tags, Len(J) + 1, Len(combined_tags)) = SelectSeq(K, IsNew)

\* C13: a finished run whose merged list is empty (as it is when neither source
\* gives a tag) has a non-zero exit code and has written no TAGS entry; one whose
\* merged list is not empty has, with a writable output file, written exactly one
\* TAGS entry, the merged list, and exit code 0.
C13_EmptyTagsIsError ==
    tpc = "done" =>
        /\ (JsonSourced = << >> /\ KeyValueSourced = << >>) => combined_tags = << >>
        /\ combined_tags = << >> => (t_exit > 0 /\ t_output = << >>)
        /\ (combined_tags # << >> /\ t_github_output = "writable") =>
               (t_output = << combined_tags >> /\ t_exit = 0)

\* C13 witness: invalid JSON and a comment line only: exit 1, nothing written.
C13_Witness ==
    /\ tpc = "done"
    /\ tags_json_form = "invalid"
    /\ tags_key_value = << "#", "A", "=", "x" >>
    /\ combined_tags = << >>
    /\ t_exit = 1
    /\ t_output = << >>

\* the reference: one layer of quotes is removed when the value starts and
\* ends with the same quote character
RefUnquote(value) ==
    IF Len(value) >= 2 /\ value[1] \in QuoteChars /\ value[Len(value)] = value[1]
    THEN SubSeq(value, 2, Len(value) - 1)
    ELSE value

\* the reference parse of a key=value text
RefParse(text) ==
    LET raw == Split(text, "\n")
        Counts(line) == /\ Strip(line) # << >>
                        /\ Head(Strip(line)) # "#"
                        /\ "=" \in Range(line)
        lines == SelectSeq(raw, Counts)
        RefTag(line) ==
            LET l == Strip(line)
                i == FirstIndex(l, "=")
            IN  Tag(Strip(SubSeq(l, 1, i - 1)),
                    RefUnquote(Strip(SubSeq(l, i + 1, Len(l)))))
    IN  [ n \in 1..Len(lines) |-> RefTag(lines[n]) ]

\* C14: the tags the key=value step produces from a text are the reference
\* parse of the text (main.py: with no JSON-sourced tag and a text that gives
\* each key once, so that nothing is merged).
C14_KeyValueParseMatchesReference ==
    /\ (t_variant = "pt" /\ tpc = "json") => combined_tags = RefParse(tags_key_value)
    /\ (t_variant = "main" /\ tpc = "write" /\ JsonSourced = << >>
            /\ DistinctTagKeys(RefParse(tags_key_value))) =>
           combined_tags = RefParse(tags_key_value)

\* C15: in every TAGS entry written, each tag Key occurs exactly once.
C15_EachTagKeyOnce ==
    \A n \in 1..Len(t_output) : DistinctTagKeys(t_output[n])


-----------------------------------------------------------------------------
(* The change detectors: values.                                           *)

MaxChangedFiles == 3    \* longest changed-file list

\* "cloud-formation/"
Root == << "c", "l", "o", "u", "d", "-", "f", "o", "r", "m", "a", "t", "i", "o", "n", "/" >>

\* the file name stem and extensions of a deployment config
DeploymentConfig ==
    << "d", "e", "p", "l", "o", "y", "m", "e", "n", "t", "-", "c", "o", "n", "f", "i", "g" >>
YmlExt == << ".", "y", "m", "l" >>
YamlExt == << ".", "y", "a", "m", "l" >>

\* str.endswith(suffix)
EndsWith(s, suffix) ==
    Len(s) >= Len(suffix) /\ SubSeq(s, Len(s) - Len(suffix) + 1, Len(s)) = suffix

\* the index of the last '/' of p, 0 when there is none (p.rfind('/') + 1)
LastSlash(p) ==
    IF "/" \in Range(p)
    THEN CHOOSE i \in 1..Len(p) : p[i] = "/" /\ \A j \in (i + 1)..Len(p) : p[j] # "/"
    ELSE 0

\* str.rstrip('/')
RECURSIVE RStripSlash(_)
RStripSlash(s) ==
    IF s # << >> /\ s[Len(s)] = "/" THEN RStripSlash(SubSeq(s, 1, Len(s) - 1)) ELSE s

\* os.path.dirname (posixpath): the head up to the last '/', its trailing
\* slashes removed unless it consists of slashes only
Dirname(p) ==
    LET head == SubSeq(p, 1, LastSlash(p))
    IN  IF head # << >> /\ Range(head) # { "/" } THEN RStripSlash(head) ELSE head

\* the characters of the model's paths in code point order
Alphabet ==
    << ",", "-", ".", "/",
       "a", "b", "c", "d", "e", "f", "g", "h", "i", "j", "k", "l", "m",
       "n", "o", "p", "q", "r", "s", "t", "u", "v", "w", "x", "y", "z" >>

\* the rank of ord(c) among the characters of Alphabet
CodePoint(c) == CHOOSE i \in 1..Len(Alphabet) : Alphabet[i] = c

\* Python's a < b on str: lexicographic by code point
RECURSIVE StrLess(_, _)
StrLess(a, b) ==
    IF b = << >> THEN FALSE
    ELSE IF a = << >> THEN TRUE
    ELSE IF Head(a) = Head(b) THEN StrLess(Tail(a), Tail(b))
    ELSE CodePoint(Head(a)) < CodePoint(Head(b))

\* sorted(S), descending: not what the code does
RECURSIVE Sorted_Descending(_)
Sorted_Descending(S) ==
    IF S = { } THEN << >>
    ELSE LET m == CHOOSE x \in S : \A y \in S : y = x \/ StrLess(y, x)
         IN  << m >> \o Sorted_Descending(S \ { m })

\* sorted(changed_paths) on a set of str
RECURSIVE Sorted(_)
Sorted(S) ==
    IF S = { } THEN << >>
    ELSE LET m == CHOOSE x \in S : \A y \in S : y = x \/ StrLess(x, y)
         IN  << m >> \o Sorted(S \ { m })

\* expected_prefix without the closing '/': not what the code does
ExpectedPrefix_NoSlash(app) == Root \o app

\* expected_prefix = f"cloud-formation/{app_name}/"
ExpectedPrefix(app) == Root \o app \o << "/" >>

\* "if not file: continue" and
\* file.startswith("cloud-formation/") and (file.endswith(".yml") or file.endswith(".yaml"))
IsChangedConfig(file) ==
    /\ file # << >>
    /\ StartsWith(file, Root)
    /\ (EndsWith(file, YmlExt) \/ EndsWith(file, YamlExt))

\* the loop "for file in changed_files": changed_paths.add(os.path.dirname(file))
ChangedPaths(files) ==
    { Dirname(files[i]) : i \in { j \in 1..Len(files) : IsChangedConfig(files[j]) } }

\* the workflow_dispatch branch never taken: not what the code does
ExplicitPath_Never(event, path) == FALSE

\* detect_changed_applications up to "return resource_path": the branch taken
\* when "event_name == 'workflow_dispatch' and resource_path"
ExplicitPath(event, path) ==
    event = "workflow_dispatch" /\ path # << >>

\* the result of the workflow_dispatch branch
ValidateResourcePath(path, app) ==
    IF app # << >> /\ ~StartsWith(path, ExpectedPrefix(app)) THEN << >> ELSE path

\* the result of the other branches: ",".join(sorted(changed_paths))
JoinChangedPaths(files) == Join(Sorted(ChangedPaths(files)), ",")

\* resource directories and changed files of the model
DirAR == Root \o << "a", "/", "r" >>
DirAB == Root \o << "a", "-", "b" >>
ConfigFile(dir, ext) == dir \o << "/" >> \o DeploymentConfig \o ext
ChangedFileNames ==
    { << >>,
      ConfigFile(DirAR, YmlExt),
      ConfigFile(DirAR, YamlExt),
      ConfigFile(DirAB, YamlExt),
      Root \o << "a", "/", "t", "e", "m", "p", "l", "a", "t", "e", ".", "y", "m", "l" >>,
      DirAR \o << "/", "r", "e", "a", "d", "m", "e", ".", "m", "d" >>,
      << "s", "r", "c", "/" >> \o DeploymentConfig \o YmlExt }

\* inputs.resource_path of a workflow_dispatch event; the code only tests an
\* absent one (None) for truth, as it does the empty string
ResourcePaths ==
    { << >>,
      DirAR,
      DirAB,
      Root \o << "a" >>,
      << "s", "r", "c", "/", "a", "/", "r" >> }

\* INPUT_APP_NAME
AppNames == { << >>, << "a" >>, << "b" >> }

-----------------------------------------------------------------------------
(* The change detectors as state machines.                                 *)

\* what a git command gives: it fails (CalledProcessError) or prints lines
CommandResults ==
    { [ ok |-> FALSE, stdout |-> << >> ] } \cup
    { [ ok |-> TRUE, stdout |-> lines ] : lines \in SeqsUpTo(ChangedFileNames, MaxChangedFiles) }

\* str.strip() then str.splitlines() on lines without blanks: the empty lines
\* at both ends are gone, those inside stay
RECURSIVE StripLines(_)
StripLines(lines) ==
    IF lines = << >> THEN << >>
    ELSE IF Head(lines) = << >> THEN StripLines(Tail(lines))
    ELSE IF lines[Len(lines)] = << >> THEN StripLines(SubSeq(lines, 1, Len(lines) - 1))
    ELSE lines

\* run_command(...).splitlines(): "" in place of the output of a failed command
RunCommand(result) == IF result.ok THEN StripLines(result.stdout) ELSE << >>

\* what requests.get and response.json() give: an exception, a status other
\* than 200, a 200 whose body is no list, or a 200 with the list of file names
ApiResults ==
    { [ kind |-> "raises", files |-> << >> ],
      [ kind |-> "status", files |-> << >> ],
      [ kind |-> "not_list", files |-> << >> ] } \cup
    { [ kind |-> "list", files |-> files ] :
          files \in SeqsUpTo(ChangedFileNames, MaxChangedFiles) }

\* the event data carries inputs on workflow_dispatch only and pull_request
\* data on pull_request only; GITHUB_EVENT_BEFORE is set or empty
CInit ==
    /\ c_variant \in { "main", "dca" }
    /\ event_name \in { "workflow_dispatch", "pull_request", "push" }
    /\ resource_path \in (IF event_name = "workflow_dispatch" THEN ResourcePaths ELSE { << >> })
    /\ app_name = << >>
    /\ pr_number \in (IF event_name = "pull_request" THEN { 0, 7 } ELSE { 0 })
    /\ pr_head_sha \in (IF event_name = "pull_request" /\ pr_number = 7
                        THEN { "", "head" } ELSE { "" })
    /\ event_before \in (IF event_name = "push" THEN { "", "before" } ELSE { "" })
    /\ commands = << >>
    /\ response = "none"
    /\ parent_count = -1
    /\ changed_files = << >>
    /\ paths = << >>
    /\ cpc = "event"
    /\ c_github_output = "<unread>"
    /\ c_output = << >>
    /\ c_exit = -1

\* what a step that runs commands leaves alone
CEnvironment ==
    << c_variant, event_name, resource_path, app_name, pr_number, pr_head_sha, event_before >>

\* execute / main up to the first external command of detect_changed_applications:
\* INPUT_APP_NAME is read on workflow_dispatch, and the branch is taken
ReadEvent ==
    /\ cpc = "event"
    /\ \E app \in (IF event_name = "workflow_dispatch" THEN AppNames ELSE { << >> }) :
          app_name' = app
    /\ cpc' = IF ExplicitPath(event_name, resource_path) THEN "detect"
              ELSE IF event_name = "pull_request" /\ pr_number # 0 /\ pr_head_sha # ""
                   THEN "rev_parse"
              ELSE IF event_name = "push" /\ event_before # "" THEN "parents"
              ELSE "head_diff"
    /\ UNCHANGED << c_variant, event_name, resource_path, pr_number, pr_head_sha,
                    event_before, commands, response, parent_count, changed_files, paths,
                    c_github_output, c_output, c_exit >>
    /\ UNCHANGED notC

\* get_changed_files_pull_request: prev_sha = run_command("git rev-parse {head_sha}^")
PrRevParse ==
    /\ cpc = "rev_parse"
    /\ commands' = Append(commands, "git rev-parse head^")
    /\ \E prev_sha \in { "", "prev" } :
          cpc' = IF prev_sha # "" THEN "parent_diff" ELSE "api"
    /\ UNCHANGED << CEnvironment, response, parent_count >>
    /\ UNCHANGED << changed_files, paths, c_github_output, c_output, c_exit >>
    /\ UNCHANGED notC

\* get_changed_files_pull_request: "git diff --name-only {prev_sha} {head_sha}",
\* returned "if changed_files:"
PrParentDiff ==
    /\ cpc = "parent_diff"
    /\ commands' = Append(commands, "git diff prev head")
    /\ \E result \in CommandResults :
          IF RunCommand(result) # << >>
          THEN changed_files' = RunCommand(result) /\ cpc' = "detect"
          ELSE changed_files' = changed_files /\ cpc' = "api"
    /\ UNCHANGED << CEnvironment, response, parent_count >>
    /\ UNCHANGED << paths, c_github_output, c_output, c_exit >>
    /\ UNCHANGED notC

\* an empty list of the API handled like no list: not what the code does
PrApi_EmptyListFallsBack ==
    /\ cpc = "api"
    /\ commands' = Append(commands, "GET pulls/files")
    /\ \E answer \in ApiResults :
          /\ response' = answer.kind
          /\ IF answer.kind = "list" /\ answer.files # << >>
             THEN changed_files' = answer.files /\ cpc' = "detect" /\ c_exit' = c_exit
             ELSE IF answer.kind = "raises"
             THEN changed_files' = changed_files /\ cpc' = "raised" /\ c_exit' = 1
             ELSE changed_files' = changed_files /\ cpc' = "head_diff" /\ c_exit' = c_exit
    /\ UNCHANGED << CEnvironment, parent_count >>
    /\ UNCHANGED << paths, c_github_output, c_output >>
    /\ UNCHANGED notC

\* get_changed_files_pull_request: requests.get on the pull-request-files API;
\* nothing catches an exception of the request or of response.json()
PrApi ==
    /\ cpc = "api"
    /\ commands' = Append(commands, "GET pulls/files")
    /\ \E answer \in ApiResults :
          /\ response' = answer.kind
          /\ IF answer.kind = "list"
             THEN changed_files' = answer.files /\ cpc' = "detect" /\ c_exit' = c_exit
             ELSE IF answer.kind = "raises"
             THEN changed_files' = changed_files /\ cpc' = "raised" /\ c_exit' = 1
             ELSE changed_files' = changed_files /\ cpc' = "head_diff" /\ c_exit' = c_exit
    /\ UNCHANGED << CEnvironment, parent_count >>
    /\ UNCHANGED << paths, c_github_output, c_output >>
    /\ UNCHANGED notC

\* run_command("git diff --name-only HEAD~1 HEAD").splitlines(): the final
\* fallback of a pull request and the source of every other event
HeadDiff ==
    /\ cpc = "head_diff"
    /\ commands' = Append(commands, "git diff HEAD~1 HEAD")
    /\ \E result \in CommandResults : changed_files' = RunCommand(result)
    /\ cpc' = "detect"
    /\ UNCHANGED << CEnvironment, response, parent_count >>
    /\ UNCHANGED << paths, c_github_output, c_output, c_exit >>
    /\ UNCHANGED notC

\* the merge base taken for every commit with a parent: not what the code does
PushParents_AnyParent ==
    /\ cpc = "parents"
    /\ commands' = Append(commands, "git cat-file -p after")
    /\ \E count \in 0..2 :
          /\ parent_count' = count
          /\ cpc' = IF count > 0 THEN "merge_base" ELSE "push_diff"
    /\ UNCHANGED << CEnvironment, response >>
    /\ UNCHANGED << changed_files, paths, c_github_output, c_output, c_exit >>
    /\ UNCHANGED notC

\* get_changed_files_push: the parent count of the pushed commit, 0 when the
\* command fails or prints no number
PushParents ==
    /\ cpc = "parents"
    /\ commands' = Append(commands, "git cat-file -p after")
    /\ \E count \in 0..2 :
          /\ parent_count' = count
          /\ cpc' = IF count > 1 THEN "merge_base" ELSE "push_diff"
    /\ UNCHANGED << CEnvironment, response >>
    /\ UNCHANGED << changed_files, paths, c_github_output, c_output, c_exit >>
    /\ UNCHANGED notC

\* get_changed_files_push, "if parent_count > 1:": the merge base, then the diff
\* from it to the pushed commit
PushMergeBase ==
    /\ cpc = "merge_base"
    /\ commands' = commands \o << "git merge-base before after", "git diff merge_base after" >>
    /\ \E result \in CommandResults : changed_files' = RunCommand(result)
    /\ cpc' = "detect"
    /\ UNCHANGED << CEnvironment, response, parent_count >>
    /\ UNCHANGED << paths, c_github_output, c_output, c_exit >>
    /\ UNCHANGED notC

\* get_changed_files_push, else: "git diff --name-only {before_sha} {after_sha}"
PushDiff ==
    /\ cpc = "push_diff"
    /\ commands' = Append(commands, "git diff before after")
    /\ \E result \in CommandResults :
          IF RunCommand(result) # << >>
          THEN changed_files' = RunCommand(result) /\ cpc' = "detect"
          ELSE changed_files' = changed_files /\ cpc' = "range_diff"
    /\ UNCHANGED << CEnvironment, response, parent_count >>
    /\ UNCHANGED << paths, c_github_output, c_output, c_exit >>
    /\ UNCHANGED notC

\* get_changed_files_push, "if not changed_files:": "git diff --name-only
\* {before_sha}..{after_sha}"
PushRangeDiff ==
    /\ cpc = "range_diff"
    /\ commands' = Append(commands, "git diff before..after")
    /\ \E result \in CommandResults : changed_files' = RunCommand(result)
    /\ cpc' = "detect"
    /\ UNCHANGED << CEnvironment, response, parent_count >>
    /\ UNCHANGED << paths, c_github_output, c_output, c_exit >>
    /\ UNCHANGED notC

\* detect_changed_applications from the changed files on, or its
\* workflow_dispatch branch: the result
Detect ==
    /\ cpc = "detect"
    /\ paths' = IF ExplicitPath(event_name, resource_path)
                THEN ValidateResourcePath(resource_path, app_name)
                ELSE JoinChangedPaths(changed_files)
    /\ cpc' = "output"
    /\ UNCHANGED << CEnvironment, response, parent_count >>
    /\ UNCHANGED << commands, changed_files, c_github_output, c_output, c_exit >>
    /\ UNCHANGED notC

\* "if github_output:" open and write, else print; an exception of open or
\* write is not caught and ends the process with exit code 1
Output ==
    /\ cpc = "output"
    /\ \E github_output \in GithubOutputs :
          /\ c_github_output' = github_output
          /\ IF github_output = "unwritable"
             THEN c_output' = c_output /\ c_exit' = 1
             ELSE c_output' = Append(c_output, paths) /\ c_exit' = 0
    /\ cpc' = "done"
    /\ UNCHANGED << c_variant, event_name, resource_path, app_name, pr_number, pr_head_sha,
                    event_before, commands, response, parent_count, changed_files, paths >>
    /\ UNCHANGED notC

\* main.py ChangeDetector.execute
CDetectMain == c_variant = "main" /\ Detect
COutputMain == c_variant = "main" /\ Output

\* detect_changed_applications.py main
CDetectDca == c_variant = "dca" /\ Detect
COutputDca == c_variant = "dca" /\ Output

CNext ==
    \/ ReadEvent
    \/ PrRevParse
    \/ PrParentDiff
    \/ PrApi
    \/ HeadDiff
    \/ PushParents
    \/ PushMergeBase
    \/ PushDiff
    \/ PushRangeDiff
    \/ CDetectMain
    \/ COutputMain
    \/ CDetectDca
    \/ COutputDca

\* a run of a change detector
InitChange == MIdle /\ PIdle /\ TIdle /\ CInit /\ DIdle /\ SIdle

SpecChange == InitChange /\ [][CNext]_vars


-----------------------------------------------------------------------------
(* Properties of the change detectors.                                     *)

\* the detector has returned its result
Detected == c_variant # "idle" /\ cpc \in { "output", "done" }

\* the directories a result lists
Listed(result) == IF result = << >> THEN << >> ELSE Split(result, ",")

\* the path begins with cloud-formation/<app>/
UnderApp(path, app) ==
    \E k \in 0..Len(path) : SubSeq(path, 1, k) = Root \o app \o << "/" >>

\* C16: on workflow_dispatch with a non-empty explicit resource path, the result
\* is empty when an app name is given and the path does not start with
\* cloud-formation/<app_name>/, and is the resource path itself otherwise.
C16_ExplicitResourcePath ==
    (Detected /\ event_name = "workflow_dispatch" /\ resource_path # << >>) =>
        IF app_name # << >> /\ ~UnderApp(resource_path, app_name)
        THEN paths = << >>
        ELSE paths = resource_path

\* a path of another application that shares the name's characters is rejected
C16_Witness ==
    /\ cpc = "done"
    /\ event_name = "workflow_dispatch"
    /\ resource_path = DirAB
    /\ app_name = << "a" >>
    /\ paths = << >>

\* the changed files the detector's filter lets through
Matching == { f \in Range(changed_files) : IsChangedConfig(f) }

\* C17: the result of a changed-file list is the comma-joined list of the
\* containing directories of the matching files, in strictly increasing
\* lexicographic order (sorted, no directory twice); such a list is fixed by the
\* set of the files, so neither their order nor their multiplicity matters; an
\* empty result is not an error: the exit code is 0 when the output is written.
C17_SortedDistinctDirectories ==
    (Detected /\ ~ExplicitPath(event_name, resource_path)) =>
        /\ Range(Listed(paths)) = { Dirname(f) : f \in Matching }
        /\ \A i, j \in 1..Len(Listed(paths)) :
               i < j => StrLess(Listed(paths)[i], Listed(paths)[j])
        /\ paths = Join(Listed(paths), ",")
        /\ (Matching = { }) => paths = << >>
        /\ (cpc = "done" /\ c_github_output # "unwritable") =>
               c_exit = 0 /\ c_output = << paths >>

\* two files of one directory around a file of another one
C17_Witness ==
    /\ cpc = "done"
    /\ changed_files = << ConfigFile(DirAR, YmlExt), ConfigFile(DirAB, YamlExt),
                          ConfigFile(DirAR, YamlExt) >>
    /\ paths = DirAB \o << "," >> \o DirAR
    /\ c_exit = 0

\* the file name of a path: what follows its last '/'
Basename(p) == SubSeq(p, LastSlash(p) + 1, Len(p))

\* a deployment-config file under the cloud-formation/ root
IsDeploymentConfigFile(f) ==
    /\ StartsWith(f, Root)
    /\ Basename(f) \in { DeploymentConfig \o YmlExt, DeploymentConfig \o YamlExt }

\* C18: every directory of the result is the containing directory of a changed
\* deployment-config.yml or deployment-config.yaml under cloud-formation/; files
\* of any other name contribute nothing.
C18_OnlyDeploymentConfigFiles ==
    (Detected /\ ~ExplicitPath(event_name, resource_path)) =>
        \A d \in Range(Listed(paths)) :
            \E f \in Range(changed_files) : IsDeploymentConfigFile(f) /\ Dirname(f) = d


-----------------------------------------------------------------------------
(* The output file of the actions.                                         *)

\* C19: a tag processor, a parameter processor or a matrix generator that finds
\* the file named by GITHUB_OUTPUT unwritable ends with a non-zero exit code.
C19_UnwritableOutputIsError ==
    /\ (tpc = "done" /\ t_github_output = "unwritable") => t_exit > 0
    /\ (ppc = "done" /\ p_github_output = "unwritable") => p_exit > 0
    /\ (mpc = "done" /\ m_github_output = "unwritable") => m_exit > 0


-----------------------------------------------------------------------------
(* The matrix generators over several resource paths.                      *)

MaxConfigPaths == 2    \* longest resource path list of a filtered run

\* a run of main.py or generate_deployment_matrices.py over up to MaxConfigPaths
\* resource paths with INPUT_SPECIFIC_ENVIRONMENT = dev
PathsInit ==
    /\ variant \in { "main", "gdm" }
    /\ specific_environment = DEV
    /\ num_paths \in 0..MaxConfigPaths
    /\ path_idx = 0
    /\ mpc = "path"
    /\ declared = << >>
    /\ environments = << >>
    /\ env_idx = 1
    /\ deployment = [ e \in EnvNames |-> Unread ]
    /\ lookup = NoLookup
    /\ matrix_items = EmptyMatrices
    /\ dev_matrix_items = << >>
    /\ int_matrix_items = << >>
    /\ prod_matrix_items = << >>
    /\ custom_matrix_items = << >>
    /\ matrix = << >>
    /\ config_status = "ok"
    /\ m_github_output = "<unread>"
    /\ m_exit = -1

PathsNext ==
    \/ LoadConfig
    \/ ProcessEnvMain
    \/ ProcessEnvGdm
    \/ NoGithubOutput
    \/ WriteMatrices

InitPaths == PathsInit /\ PIdle /\ TIdle /\ CIdle /\ DIdle /\ SIdle

SpecPaths == InitPaths /\ [][PathsNext]_vars

\* what loading a config gives when the file is missing, does not parse, or is
\* not a mapping
BrokenConfig == { "missing", "parse_error", "not_mapping" }

\* C20: loading a resource path whose config is missing, fails to parse or is
\* not a mapping adds no item to any matrix and does not end the generator: it
\* goes on to the next resource path; a generator that does not raise on some
\* other config ends only after the last resource path (or at once without
\* GITHUB_OUTPUT), and then the four matrices are written with exit code 0 if
\* the output file is writable.
C20_Step ==
    /\ (FullGenerator /\ mpc = "path" /\ path_idx < num_paths
                      /\ config_status' \in BrokenConfig) =>
           /\ Emitted' = Emitted
           /\ path_idx' = path_idx + 1
           /\ mpc' = "path"
           /\ m_exit' = -1
    /\ (FullGenerator /\ mpc' = "done" /\ m_github_output' # "unset"
                      /\ ~LoadRaises(variant, config_status')) =>
           /\ path_idx' = num_paths
           /\ m_exit' = (IF m_github_output' = "writable" THEN 0 ELSE 1)
    /\ (FullGenerator /\ mpc' # "done") => m_exit' = -1

C20_BrokenConfigIsSkipped == [][C20_Step]_vars

\* two resource paths, the first gives one dev item, the config of the second
\* does not parse: the matrices are written with that one item
C20_Witness ==
    /\ FullGenerator
    /\ num_paths = 2
    /\ mpc = "done"
    /\ m_exit = 0
    /\ config_status = "parse_error"
    /\ Len(dev_matrix_items) = 1
    /\ dev_matrix_items[1].resource_path = 1
    /\ int_matrix_items = << >>
    /\ prod_matrix_items = << >>


-----------------------------------------------------------------------------
(* Frame of a dropped environment.                                         *)

\* what a config emits that declares exactly the environments envs, each with
\* all its required values: one item per environment, in order
RECURSIVE EmitAll(_, _, _)
EmitAll(envs, path, data) ==
    IF envs = << >> THEN EmptyMatrices
    ELSE LET first == envs[Len(envs)]
         IN  AddToMatrices(EmitAll(SubSeq(envs, 1, Len(envs) - 1), path, data),
                           first, MakeItem(first, path, data[first]))

\* C21: after every env iteration the items emitted for the current resource
\* path are those of a config that does not declare the environments dropped for
\* a missing required value (same items, same order in each matrix), and the
\* items of every other resource path are what they were; no other step changes
\* an emitted matrix.
C21_Step ==
    /\ (FullGenerator /\ mpc = "env") =>
           LET data == ReadEnv(lookup'.env, lookup'.d)
               processed == SubSeq(environments, 1, env_idx)
               Kept(e) == HasAllRequired(data[e])
               OfPath(item) == item.resource_path = path_idx + 1
               Other(item) == item.resource_path # path_idx + 1
           IN  \A b \in BucketNames :
                   /\ SelectSeq(Emitted'[b], OfPath) =
                          EmitAll(SelectSeq(processed, Kept), path_idx + 1, data)[b]
                   /\ SelectSeq(Emitted'[b], Other) = SelectSeq(Emitted[b], Other)
    /\ (FullGenerator /\ mpc # "env") => Emitted' = Emitted

-----------------------------------------------------------------------------
(* Properties of the changed-file sources.                                 *)

RevParse == "git rev-parse head^"
ParentDiff == "git diff prev head"
ApiRequest == "GET pulls/files"
LastCommitDiff == "git diff HEAD~1 HEAD"
ParentCount == "git cat-file -p after"
MergeBase == "git merge-base before after"
MergeBaseDiff == "git diff merge_base after"
BeforeAfterDiff == "git diff before after"
RangeDiff == "git diff before..after"

\* the prefixes of a sequence
Prefixes(seq) == { SubSeq(seq, 1, n) : n \in 0..Len(seq) }

\* the command is run in this step
Runs(command) == command \in Range(commands') /\ command \notin Range(commands)

\* the change detector has its file list or has ended
SourcesDone == cpc \in { "detect", "output", "done", "raised" }

\* C22: on a pull_request event with PR number and head SHA the sources run in
\* the order (a) rev-parse and diff against the parent, (b) the API, (c) the
\* diff HEAD~1..HEAD, each at most once; the API is asked only while (a) has
\* given no file, (c) is run only after an API answer that is not a 200 with a
\* list, and the file list is that of the source run last: no source runs and
\* no file list changes after one succeeded.
C22_Step ==
    (event_name = "pull_request" /\ pr_number # 0 /\ pr_head_sha # "") =>
        /\ commands' \in Prefixes(<< RevParse, ParentDiff, ApiRequest, LastCommitDiff >>)
                           \cup Prefixes(<< RevParse, ApiRequest, LastCommitDiff >>)
        /\ Runs(ApiRequest) => changed_files = << >>
        /\ Runs(LastCommitDiff) => response \in { "status", "not_list" } /\ changed_files = << >>
        /\ (changed_files' # changed_files) => commands' # commands /\ cpc' = "detect"
        /\ SourcesDone => commands' = commands /\ changed_files' = changed_files
        /\ (cpc' = "detect" /\ cpc # "detect") =>
               \/ Runs(ParentDiff) /\ changed_files' # << >>
               \/ Runs(ApiRequest) /\ response' = "list"
               \/ Runs(LastCommitDiff)

C22_PullRequestSourceOrder == [][C22_Step]_vars

\* the three sources were tried in turn and the last one gave the files
C22_Witness ==
    /\ cpc = "done"
    /\ c_exit = 0
    /\ event_name = "pull_request"
    /\ commands = << RevParse, ParentDiff, ApiRequest, LastCommitDiff >>
    /\ response = "not_list"
    /\ changed_files = << ConfigFile(DirAR, YmlExt) >>
    /\ paths = DirAR

\* C23: on a push event with a before SHA, a pushed commit with more than one
\* parent is diffed from the merge base; otherwise before -> after is diffed, and
\* before..after only when that diff gave no file; the directory of a changed
\* deployment-config.yaml of a non-merge push is in the result, which is that
\* directory when nothing else changed.
C23_Step ==
    (event_name = "push" /\ event_before # "") =>
        /\ commands' \in Prefixes(<< ParentCount, BeforeAfterDiff, RangeDiff >>)
                           \cup { << ParentCount, MergeBase, MergeBaseDiff >> }
        /\ Runs(MergeBaseDiff) => parent_count > 1
        /\ Runs(BeforeAfterDiff) => parent_count \in { 0, 1 }
        /\ Runs(RangeDiff) => changed_files = << >>
        /\ (Runs(BeforeAfterDiff) /\ changed_files' # << >>) => cpc' = "detect"
        /\ SourcesDone => commands' = commands /\ changed_files' = changed_files
        /\ (Detected' /\ parent_count' \in { 0, 1 }) =>
               /\ \A f \in Range(changed_files') :
                      (StartsWith(f, Root) /\ f = Dirname(f) \o << "/" >> \o DeploymentConfig \o YamlExt)
                          => Dirname(f) \in Range(Listed(paths'))
               /\ \A d \in { DirAR, DirAB } :
                      changed_files' = << ConfigFile(d, YamlExt) >> => paths' = d

C23_PushDiff == [][C23_Step]_vars

\* a non-merge push whose first diff holds one deployment-config.yaml
C23_Witness ==
    /\ cpc = "done"
    /\ c_exit = 0
    /\ event_name = "push"
    /\ parent_count = 1
    /\ commands = << ParentCount, BeforeAfterDiff >>
    /\ changed_files = << ConfigFile(DirAR, YamlExt) >>
    /\ paths = DirAR
    /\ c_output = << DirAR >>

\* C24: no failure of a git command or of the API request ends the detector with
\* an exception: it never raises, and when the output can be written it ends
\* with exactly one paths entry and exit code 0.
C24_CollaboratorFailuresCaught ==
    c_variant # "idle" =>
        /\ cpc # "raised"
        /\ (cpc = "done" /\ c_github_output # "unwritable") =>
               Len(c_output) = 1 /\ c_exit = 0

\* C25: a workflow_dispatch event with a non-empty resource path runs no
\* external command, whether the path is accepted or rejected; a
\* workflow_dispatch event without one runs the diff HEAD~1..HEAD, and only it.
C25_ExplicitPathRunsNothing ==
    (c_variant # "idle" /\ event_name = "workflow_dispatch") =>
        IF resource_path # << >>
        THEN commands = << >>
        ELSE /\ commands \in Prefixes(<< LastCommitDiff >>)
             /\ Detected => commands = << LastCommitDiff >>

\* an accepted explicit path went through to the output with no command run
C25_Witness ==
    /\ cpc = "done"
    /\ c_exit = 0
    /\ event_name = "workflow_dispatch"
    /\ resource_path = DirAR
    /\ app_name = << "a" >>
    /\ paths = DirAR
    /\ commands = << >>


-----------------------------------------------------------------------------
(* The temporary path of a run, and two runs on one host.                  *)

MaxDigits == 2    \* longest GITHUB_RUN_ID and GITHUB_RUN_NUMBER

\* the digits the run identifiers are written with
Digits == { "1", "2" }

\* a positive decimal number of at most MaxDigits digits
RunNumbers == SeqsUpTo(Digits, MaxDigits) \ { << >> }

\* tmp_path = f"/tmp/{github_run_id}{github_run_number}"
TmpPath(github_run_id, github_run_number) ==
    << "/tmp/" >> \o github_run_id \o github_run_number

\* param_file = f"{tmp_path}/cfn-parameter-{github_run_id}-{github_run_number}.json"
ParamFile(github_run_id, github_run_number) ==
    TmpPath(github_run_id, github_run_number) \o << "/cfn-parameter-" >> \o github_run_id
        \o << "-" >> \o github_run_number \o << ".json" >>

\* output_path = f"{tmp_path}/encrypted-secrets-{github_run_id}.b64"
OutputPath(github_run_id, github_run_number) ==
    TmpPath(github_run_id, github_run_number) \o << "/encrypted-secrets-" >> \o github_run_id
        \o << ".b64" >>

\* two runs of the same script with different (run id, run number) pairs
DInit ==
    /\ d_variant \in { "main", "gpf", "sh" }
    /\ run_id \in [ HostRuns -> RunNumbers ]
    /\ run_number \in [ HostRuns -> RunNumbers ]
    /\ << run_id[1], run_number[1] >> # << run_id[2], run_number[2] >>
    /\ tmp_path = [ r \in HostRuns |-> << >> ]
    /\ param_file = [ r \in HostRuns |-> << >> ]
    /\ host_dirs = { }
    /\ dpc = [ r \in HostRuns |-> "start" ]

\* execute / main up to the parameter processing: the two paths are formed
Prepare(r) ==
    /\ dpc[r] = "start"
    /\ tmp_path' = [ tmp_path EXCEPT ![r] = TmpPath(run_id[r], run_number[r]) ]
    /\ param_file' = [ param_file EXCEPT ![r] = ParamFile(run_id[r], run_number[r]) ]
    /\ dpc' = [ dpc EXCEPT ![r] = "prepared" ]
    /\ UNCHANGED << d_variant, run_id, run_number, host_dirs >>
    /\ UNCHANGED notD

\* _save_parameters / save: mkdir(parents=True, exist_ok=True), then the file
Save(r) ==
    /\ dpc[r] = "prepared"
    /\ host_dirs' = host_dirs \cup { tmp_path[r] }
    /\ dpc' = [ dpc EXCEPT ![r] = "saved" ]
    /\ UNCHANGED << d_variant, run_id, run_number, tmp_path, param_file >>
    /\ UNCHANGED notD

DPrepareMain == d_variant = "main" /\ \E r \in HostRuns : Prepare(r)

DSaveMain == d_variant = "main" /\ \E r \in HostRuns : Save(r)

DPrepareGpf == d_variant = "gpf" /\ \E r \in HostRuns : Prepare(r)

DSaveGpf == d_variant = "gpf" /\ \E r \in HostRuns : Save(r)

\* secret-handler.py store_encrypted_secrets without an output_path: the
\* directory is formed and created at once
DStoreSh ==
    /\ d_variant = "sh"
    /\ \E r \in HostRuns :
          /\ dpc[r] = "start"
          /\ tmp_path' = [ tmp_path EXCEPT ![r] = TmpPath(run_id[r], run_number[r]) ]
          /\ param_file' = [ param_file EXCEPT ![r] = OutputPath(run_id[r], run_number[r]) ]
          /\ host_dirs' = host_dirs \cup { tmp_path'[r] }
          /\ dpc' = [ dpc EXCEPT ![r] = "saved" ]
    /\ UNCHANGED << d_variant, run_id, run_number >>
    /\ UNCHANGED notD

DNext ==
    \/ DPrepareMain
    \/ DSaveMain
    \/ DPrepareGpf
    \/ DSaveGpf
    \/ DStoreSh

InitTmp == MIdle /\ PIdle /\ TIdle /\ CIdle /\ DInit /\ SIdle

SpecTmp == InitTmp /\ [][DNext]_vars

-----------------------------------------------------------------------------
(* Properties of the temporary paths.                                      *)

\* C26: two runs with different (run id, run number) pairs never have the same
\* temporary directory.
C26_DistinctTmpPaths ==
    (d_variant # "idle" /\ tmp_path[1] # << >> /\ tmp_path[2] # << >>) =>
        tmp_path[1] # tmp_path[2]


-----------------------------------------------------------------------------
(* The secrets loader of the parameter processors.                         *)

\* what GITHUB_SECRETS_PATH can name: no file, a file holding a non-empty
\* object, a file holding {}, a file that cannot be decrypted (main.py) or
\* opened (get-parameter-file.py), a file whose content is not JSON
SecretsFiles == { "absent", "valid", "valid_empty", "unreadable", "unparsable" }

\* the file, once read and parsed
FileParsed == secrets_file \in { "valid", "valid_empty" }

SInit ==
    /\ s_variant \in { "main", "gpf" }
    /\ salt_key \in (IF s_variant = "main" THEN { "set", "unset" } ELSE { "unset" })
    /\ secrets_base64 \in (IF s_variant = "gpf" THEN { "none", "valid", "invalid" }
                           ELSE { "none" })
    /\ secrets_file \in SecretsFiles
    /\ file_exists = (secrets_file # "absent")
    /\ loaded_secrets = "none"
    /\ s_log = << >>
    /\ spc = "load"
    /\ s_exit = -1

\* main.py _load_github_secrets up to the parsed file
SLoadMain ==
    /\ s_variant = "main"
    /\ spc = "load"
    /\ IF salt_key = "unset"
       THEN /\ s_log' = Append(s_log, "log: SECRET_SALT_KEY not set")
            /\ loaded_secrets' = "env"
            /\ spc' = "process"
       ELSE IF ~file_exists
       THEN /\ s_log' = s_log
            /\ loaded_secrets' = loaded_secrets
            /\ spc' = "env"
       ELSE IF FileParsed
       THEN /\ s_log' = s_log \o << "read", "log: loaded from file" >>
            /\ loaded_secrets' = (IF secrets_file = "valid" THEN "file" ELSE "empty")
            /\ spc' = "remove"
       ELSE /\ s_log' = Append(s_log, IF secrets_file = "unreadable"
                                      THEN "log: error decrypting"
                                      ELSE "log: error loading")
            /\ loaded_secrets' = loaded_secrets
            /\ spc' = "env"
    /\ UNCHANGED << s_variant, salt_key, secrets_base64, secrets_file, file_exists, s_exit >>
    /\ UNCHANGED notS

\* main.py: what the log gets after os.remove
RemoveLog(removed) ==
    IF removed THEN << "log: removed" >> ELSE << "log: failed to remove" >>

\* main.py _load_github_secrets: os.remove(secrets_path) inside its own try
SRemoveMain ==
    /\ s_variant = "main"
    /\ spc = "remove"
    /\ \E removed \in BOOLEAN :
          /\ file_exists' = ~removed
          /\ s_log' = s_log \o << "os.remove" >> \o RemoveLog(removed)
    /\ spc' = IF loaded_secrets = "empty" THEN "env" ELSE "process"
    /\ UNCHANGED << s_variant, salt_key, secrets_base64, secrets_file, loaded_secrets, s_exit >>
    /\ UNCHANGED notS

\* main.py _load_github_secrets: "if not secrets: _load_secrets_from_env()"
SEnvMain ==
    /\ s_variant = "main"
    /\ spc = "env"
    /\ loaded_secrets' = "env"
    /\ spc' = "process"
    /\ UNCHANGED << s_variant, salt_key, secrets_base64, secrets_file, file_exists, s_log,
                    s_exit >>
    /\ UNCHANGED notS

\* the parameters are processed with the loaded secrets and the run ends
Process ==
    /\ spc = "process"
    /\ s_log' = Append(s_log, "process parameters")
    /\ spc' = "done"
    /\ s_exit' = 0
    /\ UNCHANGED << s_variant, salt_key, secrets_base64, secrets_file, file_exists,
                    loaded_secrets >>
    /\ UNCHANGED notS

SProcessMain == s_variant = "main" /\ Process

\* get-parameter-file.py load_github_secrets up to the parsed file
SLoadGpf ==
    /\ s_variant = "gpf"
    /\ spc = "load"
    /\ IF secrets_base64 = "valid"
       THEN /\ s_log' = Append(s_log, "log: loaded from base64")
            /\ loaded_secrets' = "base64"
            /\ spc' = "process"
       ELSE LET log == IF secrets_base64 = "invalid"
                       THEN Append(s_log, "log: error decoding base64")
                       ELSE s_log
            IN  IF ~file_exists
                THEN /\ s_log' = log
                     /\ loaded_secrets' = loaded_secrets
                     /\ spc' = "env"
                ELSE IF FileParsed
                THEN /\ s_log' = log \o << "read", "log: loaded from file" >>
                     /\ loaded_secrets' = (IF secrets_file = "valid" THEN "file" ELSE "empty")
                     /\ spc' = "remove"
                ELSE /\ s_log' = Append(log, "log: error reading")
                     /\ loaded_secrets' = loaded_secrets
                     /\ spc' = "env"
    /\ UNCHANGED << s_variant, salt_key, secrets_base64, secrets_file, file_exists, s_exit >>
    /\ UNCHANGED notS

\* get-parameter-file.py load_github_secrets: os.remove under "except: pass",
\* then "return secrets"
SRemoveGpf ==
    /\ s_variant = "gpf"
    /\ spc = "remove"
    /\ \E removed \in BOOLEAN :
          /\ file_exists' = ~removed
          /\ s_log' = s_log \o << "os.remove" >> \o (IF removed THEN << "log: removed" >> ELSE << >>)
    /\ spc' = "process"
    /\ UNCHANGED << s_variant, salt_key, secrets_base64, secrets_file, loaded_secrets, s_exit >>
    /\ UNCHANGED notS

\* get-parameter-file.py load_github_secrets: GITHUB_SECRETS_JSON, then SECRET_*
SEnvGpf ==
    /\ s_variant = "gpf"
    /\ spc = "env"
    /\ loaded_secrets' = "env"
    /\ spc' = "process"
    /\ UNCHANGED << s_variant, salt_key, secrets_base64, secrets_file, file_exists, s_log,
                    s_exit >>
    /\ UNCHANGED notS

SProcessGpf == s_variant = "gpf" /\ Process

SNext ==
    \/ SLoadMain
    \/ SRemoveMain
    \/ SEnvMain
    \/ SProcessMain
    \/ SLoadGpf
    \/ SRemoveGpf
    \/ SEnvGpf
    \/ SProcessGpf

InitSecrets == MIdle /\ PIdle /\ TIdle /\ CIdle /\ DIdle /\ SInit

SpecSecrets == InitSecrets /\ [][SNext]_vars

-----------------------------------------------------------------------------
(* Properties of the secrets loader.                                       *)

\* the position of an entry in the log, 0 when absent
RECURSIVE IndexOf(_, _)
IndexOf(seq, x) ==
    IF seq = << >> THEN 0
    ELSE IF Head(seq) = x THEN 1
    ELSE LET rest == IndexOf(Tail(seq), x) IN IF rest = 0 THEN 0 ELSE rest + 1

\* C27: a secrets file that was read and parsed has its deletion attempted
\* right after the read is logged and before any parameter is processed; a
\* failed deletion is logged and changes neither the secrets used nor the
\* exit code; a file that could not be decrypted or parsed is never deleted.
C27_SecretsFileDeletion ==
    s_variant # "idle" =>
        LET read == IndexOf(s_log, "read")
            remove == IndexOf(s_log, "os.remove")
            process == IndexOf(s_log, "process parameters")
        IN  /\ (read # 0 /\ spc \notin { "load", "remove" }) => remove = read + 2
            /\ (remove # 0 /\ process # 0) => remove < process
            /\ (remove # 0 /\ file_exists) =>
                   /\ IndexOf(s_log, "log: failed to remove") = remove + 1
                   /\ (spc = "done" /\ secrets_file = "valid") =>
                          loaded_secrets = "file" /\ s_exit = 0
            /\ ~FileParsed => remove = 0 /\ file_exists = (secrets_file # "absent")


-----------------------------------------------------------------------------
(* Where the items of a resource path come from.                           *)

\* C28: every item emitted for a resource path has an environment declared in
\* deployments[0].environments of that path's config; no mapping entry of an
\* undeclared environment is looked up; and the items of the other resource
\* paths stay as they were.
C28_Step ==
    (FullGenerator /\ mpc = "env") =>
        LET OfPath(item) == item.resource_path = path_idx + 1
            Other(item) == item.resource_path # path_idx + 1
        IN  /\ lookup'.env \in Range(declared)
            /\ \A e \in EnvNames :
                   ReadEnv(lookup'.env, lookup'.d)[e] # Unread => e \in Range(declared)
            /\ \A b \in BucketNames :
                   /\ \A i \in 1..Len(Emitted'[b]) :
                          OfPath(Emitted'[b][i]) => Emitted'[b][i].environment \in Range(declared)
                   /\ SelectSeq(Emitted'[b], Other) = SelectSeq(Emitted[b], Other)

C28_OnlyDeclaredEnvironments == [][C28_Step]_vars

\* an item was emitted for the one declared environment
C28_Witness ==
    /\ FullGenerator
    /\ mpc = "done"
    /\ m_exit = 0
    /\ specific_environment = << >>
    /\ lookup.env = PROD
    /\ Len(prod_matrix_items) = 1
    /\ prod_matrix_items[1].environment = PROD
    /\ dev_matrix_items = << >>
    /\ custom_matrix_items = << >>


-----------------------------------------------------------------------------
(* The keys of the merged parameter list.                                  *)

\* C29: the merge of a parsed inline source into the file-sourced list gives a
\* list whose keys are the keys of the file source and of the inline source,
\* no more and no fewer, and a record whose key only the file source has stays
\* where it was with the value the file-side processing gave it.
C29_Step ==
    (Merger /\ ppc = "inline" /\ inline_form \in { "list", "dict" }) =>
        LET F == combined_parameters
            M == combined_parameters'
        IN  /\ KeysOf(F) = KeysOf(file_parameters)
            /\ KeysOf(M) = KeysOf(file_parameters) \cup KeysOf(inline_params)
            /\ \A i \in 1..Len(F) :
                  F[i].ParameterKey \notin KeysOf(inline_params) =>
                      /\ i <= Len(M)
                      /\ M[i] = F[i]

C29_MergeKeepsKeySet == [][C29_Step]_vars

\* file [A: v, B: SECRET:a] with the secret a and inline {C: w}: three keys, B
\* with the secret's value
C29_Witness ==
    /\ Merger
    /\ ppc = "save"
    /\ inline_form = "dict"
    /\ file_parameters = << Param("A", StrV(<< "v" >>)), Param("B", StrV(SECRET \o << "a" >>)) >>
    /\ inline_params = << Param("C", StrV(<< "w" >>)) >>
    /\ combined_parameters = << Param("A", StrV(<< "v" >>)), Param("B", StrV(<< "s", "1" >>)),
                                Param("C", StrV(<< "w" >>)) >>


-----------------------------------------------------------------------------
(* The two full matrix generators, step by step.                           *)

\* C30: on the same configs, resource paths and filter the two full
\* generators do the same: loading a config ends the one by an exception
\* exactly when it ends the other, an env iteration appends the same item to
\* the same matrices in the same order, and the exit code is the same function
\* of the output file.
C30_Step ==
    FullGenerator =>
        /\ (mpc = "path" /\ path_idx < num_paths /\ m_github_output' = m_github_output) =>
               /\ LoadRaises("main", config_status') = LoadRaises("gdm", config_status')
               /\ mpc' # "done"
               /\ Emitted' = Emitted
        /\ mpc = "env" =>
               LET env == lookup'.env
                   item == ProcessEnvironment(env, path_idx + 1, lookup'.d)
               IN  /\ item = GdmProcessEnvironment(env, path_idx + 1, lookup'.d)
                   /\ Emitted' = (IF item = NoItem THEN Emitted
                                  ELSE AddToMatrices(Emitted, env, item))
        /\ (mpc' = "done" /\ m_github_output' # m_github_output) =>
               m_exit' = (IF m_github_output' = "writable" THEN 0 ELSE 1)

C30_GeneratorsEquivalent == [][C30_Step]_vars

=============================================================================
